---------------------------- MODULE Spec2Model ----------------------------
(***************************************************************************)
(* A model of useAgoraVideoClient (src/hooks/useAgoraVideoClient.ts): the  *)
(* chunk reassembler (handleStreamMessage, its eviction timers), the       *)
(* transcript dispatcher (handleTenMessage), the volume monitor that       *)
(* decides isAgentSpeaking, and joinChannel / leaveChannel as far as they  *)
(* touch these; and of the amplitude visualizer useAudioVisualization      *)
(* (src/hooks/useAudioVisualization.ts).                                   *)
(***************************************************************************)
EXTENDS Integers, Sequences, FiniteSets, TLC

(***************************************************************************)
(* Bounds of the model and constants of the program.                       *)
(***************************************************************************)
\* At most this many stream messages arrive in one behaviour.
MaxArrivals == 3
\* Time passes in steps of at most this many milliseconds.
TickMs == 2500
\* The delay of the eviction timer, setTimeout(..., 5000).
EvictionDelay == 5000

(***************************************************************************)
(* JavaScript values, as far as the handlers look at them.                 *)
(***************************************************************************)
JsUndefined == [t |-> "undefined", s |-> "", b |-> FALSE, n |-> 0]
JsNull == [t |-> "null", s |-> "", b |-> FALSE, n |-> 0]
JsNaN == [t |-> "NaN", s |-> "", b |-> FALSE, n |-> 0]
JsStr(str) == [t |-> "string", s |-> str, b |-> FALSE, n |-> 0]
JsBool(bit) == [t |-> "boolean", s |-> "", b |-> bit, n |-> 0]
JsNum(k) == [t |-> "number", s |-> "", b |-> FALSE, n |-> k]

\* ToBoolean: undefined, null, NaN, "", 0 and false are falsy.
Truthy(v) ==
    CASE v.t = "string" -> v.s # ""
      [] v.t = "boolean" -> v.b
      [] v.t = "number" -> v.n # 0
      [] OTHER -> FALSE

\* a === b on numbers: NaN equals nothing, itself included.
NumStrictEq(a, b) == a.t = "number" /\ b.t = "number" /\ a.n = b.n

\* The characters of a string, one by one.
CharAt(str, i) == SubSeq(str, i, i)

(***************************************************************************)
(* atob: the forgiving-base64 decode of the platform.                      *)
(***************************************************************************)
B64Chars == "ABCDEFGHIJKLMNOPQRSTUVWXYZabcdefghijklmnopqrstuvwxyz0123456789+/"

B64Set == {CharAt(B64Chars, k) : k \in 1..64}

B64Value == [c \in B64Set |-> (CHOOSE k \in 1..64 : CharAt(B64Chars, k) = c) - 1]

\* Up to two trailing "=" are dropped when the length is a multiple of 4.
StripPadding(str) ==
    LET n == Len(str) IN
    IF n % 4 = 0 /\ n >= 1 /\ CharAt(str, n) = "="
    THEN IF n >= 2 /\ CharAt(str, n - 1) = "="
         THEN SubSeq(str, 1, n - 2)
         ELSE SubSeq(str, 1, n - 1)
    ELSE str

\* The bytes of one group of 2, 3 or 4 base64 characters, given their values.
GroupBytes(v) ==
    LET b1 == v[1] * 4 + (v[2] \div 16)
        b2 == IF Len(v) >= 3 THEN (v[2] % 16) * 16 + (v[3] \div 4) ELSE 0
        b3 == IF Len(v) >= 4 THEN (v[3] % 4) * 64 + v[4] ELSE 0
    IN  CASE Len(v) = 2 -> <<b1>>
          [] Len(v) = 3 -> <<b1, b2>>
          [] OTHER -> <<b1, b2, b3>>

RECURSIVE DecodeGroups(_, _)
DecodeGroups(str, from) ==
    IF from > Len(str) THEN <<>>
    ELSE LET to == IF from + 3 <= Len(str) THEN from + 3 ELSE Len(str)
             v == [i \in 1..(to - from + 1) |-> B64Value[CharAt(str, from + i - 1)]]
         IN  GroupBytes(v) \o DecodeGroups(str, to + 1)

\* atob(base64): ok is FALSE where atob throws InvalidCharacterError.
Atob(base64) ==
    LET data == StripPadding(base64) IN
    IF Len(data) % 4 = 1 \/ \E i \in 1..Len(data) : CharAt(data, i) \notin B64Set
    THEN [ok |-> FALSE, bytes |-> <<>>]
    ELSE [ok |-> TRUE, bytes |-> DecodeGroups(data, 1)]

(***************************************************************************)
(* TextDecoder("utf-8").decode: a byte below 128 is the code point itself. *)
(* A byte from 128 on is part of a multi-byte sequence; the datagrams of   *)
(* this model decode to ASCII only, and such a byte is rendered as U+FFFD. *)
(***************************************************************************)
Utf8Decode(bytes) == [i \in 1..Len(bytes) |-> IF bytes[i] < 128 THEN bytes[i] ELSE 65533]

\* base64ToUtf8: atob, the bytes of the binary string, TextDecoder.
base64ToUtf8(base64) ==
    LET bin == Atob(base64) IN
    [ok |-> bin.ok, text |-> Utf8Decode(bin.bytes)]


(***************************************************************************)
(* JSON.parse.  The value of a document: the fields handleTenMessage reads *)
(* (a missing field reads as undefined), or null.  The documents a sender  *)
(* of this model encodes are listed; every other text the datagrams of the *)
(* model can be reassembled to is rejected by JSON.parse with SyntaxError. *)
(***************************************************************************)
\* The printable ASCII characters from code 32 and from code 97 (code 96, the
\* backquote, cannot be written in a string of this language and is left out).
PrintableLow == " !\"#$%&'()*+,-./0123456789:;<=>?@ABCDEFGHIJKLMNOPQRSTUVWXYZ[\\]^_"
PrintableHigh == "abcdefghijklmnopqrstuvwxyz{|}~"

AsciiCode ==
    [c \in {CharAt(PrintableLow, k) : k \in 1..Len(PrintableLow)}
           \cup {CharAt(PrintableHigh, k) : k \in 1..Len(PrintableHigh)} |->
       IF \E k \in 1..Len(PrintableLow) : CharAt(PrintableLow, k) = c
       THEN 31 + (CHOOSE k \in 1..Len(PrintableLow) : CharAt(PrintableLow, k) = c)
       ELSE 96 + (CHOOSE k \in 1..Len(PrintableHigh) : CharAt(PrintableHigh, k) = c)]

\* The code units of an ASCII string.
Codes(str) == [i \in 1..Len(str) |-> AsciiCode[CharAt(str, i)]]

JsObject(text, is_final, role, text_ts) ==
    [t |-> "object", text |-> text, is_final |-> is_final, role |-> role,
     text_ts |-> text_ts]

JsonNull ==
    [t |-> "null", text |-> JsUndefined, is_final |-> JsUndefined,
     role |-> JsUndefined, text_ts |-> JsUndefined]

DocFinalUser == "{\"text\":\"a\",\"is_final\":true}"
DocPartialAgent == "{\"text\":\"b\",\"role\":\"assistant\"}"
DocBlank == "{\"text\":\" \"}"
DocNull == "null"
DocOlder == "{\"text\":\"c\",\"is_final\":true,\"text_ts\":5}"
DocNewer == "{\"text\":\"d\",\"is_final\":true,\"text_ts\":9}"

JsonDocs ==
    << [text |-> Codes(DocFinalUser),
        value |-> JsObject(JsStr("a"), JsBool(TRUE), JsUndefined, JsUndefined)],
       [text |-> Codes(DocPartialAgent),
        value |-> JsObject(JsStr("b"), JsUndefined, JsStr("assistant"), JsUndefined)],
       [text |-> Codes(DocBlank),
        value |-> JsObject(JsStr(" "), JsUndefined, JsUndefined, JsUndefined)],
       [text |-> Codes(DocNull), value |-> JsonNull],
       [text |-> Codes(DocOlder),
        value |-> JsObject(JsStr("c"), JsBool(TRUE), JsUndefined, JsNum(5))],
       [text |-> Codes(DocNewer),
        value |-> JsObject(JsStr("d"), JsBool(TRUE), JsUndefined, JsNum(9))] >>

\* JSON.parse(jsonStr): ok is FALSE where it throws SyntaxError.
JSONParse(jsonStr) ==
    IF \E d \in DOMAIN JsonDocs : JsonDocs[d].text = jsonStr
    THEN [ok |-> TRUE,
          value |-> JsonDocs[CHOOSE d \in DOMAIN JsonDocs : JsonDocs[d].text = jsonStr].value]
    ELSE [ok |-> FALSE, value |-> JsonNull]

(***************************************************************************)
(* The wire format: message_id|part_index|total_parts|content.             *)
(***************************************************************************)
\* ascii.split("|"): the fields between the bars.
Split(ascii) ==
    LET bars == {i \in 1..Len(ascii) : CharAt(ascii, i) = "|"}
        n == Cardinality(bars) + 1
        pos(k) == IF k = 0 THEN 0
                  ELSE IF k = n THEN Len(ascii) + 1
                  ELSE CHOOSE i \in bars : Cardinality({j \in bars : j < i}) = k - 1
    IN  [k \in 1..n |-> SubSeq(ascii, pos(k - 1) + 1, pos(k) - 1)]

\* The k-th name of the destructuring: a missing field is undefined, which
\* parseInt reads as NaN and join("") as the empty string, like "".
Field(fields, k) == IF k <= Len(fields) THEN fields[k] ELSE ""

Digits == "0123456789"

DigitValue == [c \in {CharAt(Digits, k) : k \in 1..10} |->
                  (CHOOSE k \in 1..10 : CharAt(Digits, k) = c) - 1]

RECURSIVE ParseDigits(_, _, _)
\* The value of the digits of str from position i on, acc read so far.
ParseDigits(str, i, acc) ==
    IF i > Len(str) \/ CharAt(str, i) \notin DOMAIN DigitValue THEN acc
    ELSE ParseDigits(str, i + 1, acc * 10 + DigitValue[CharAt(str, i)])

RECURSIVE SkipSpaces(_, _)
SkipSpaces(str, i) ==
    IF i <= Len(str) /\ CharAt(str, i) = " " THEN SkipSpaces(str, i + 1) ELSE i

\* parseInt(str, 10): leading white space, a sign, then the leading digits;
\* NaN when there is no digit.
parseInt(str) ==
    LET i == SkipSpaces(str, 1)
        signed == i <= Len(str) /\ CharAt(str, i) \in {"-", "+"}
        negative == signed /\ CharAt(str, i) = "-"
        j == IF signed THEN i + 1 ELSE i
    IN  IF j > Len(str) \/ CharAt(str, j) \notin DOMAIN DigitValue THEN JsNaN
        ELSE JsNum(IF negative THEN 0 - ParseDigits(str, j, 0) ELSE ParseDigits(str, j, 0))

\* totalPartsStr === "???" ? -1 : parseInt(totalPartsStr, 10)
ParseTotalParts(totalPartsStr) ==
    IF totalPartsStr = "???" THEN JsNum(-1) ELSE parseInt(totalPartsStr)

\* The chunk of a datagram.  seq is not a field of the program's chunk: it is
\* the number of the arrival, which tells two arrivals of one datagram apart.
ParseChunk(ascii, seq) ==
    LET fields == Split(ascii) IN
    [message_id |-> Field(fields, 1),
     part_index |-> parseInt(Field(fields, 2)),
     total_parts |-> ParseTotalParts(Field(fields, 3)),
     content |-> Field(fields, 4),
     seq |-> seq]

(***************************************************************************)
(* chunks.sort((a, b) => a.part_index - b.part_index): Array.prototype.sort*)
(* is stable; a NaN difference counts as 0.                                *)
(***************************************************************************)
Compare(a, b) ==
    IF a.part_index.t = "number" /\ b.part_index.t = "number"
    THEN a.part_index.n - b.part_index.n
    ELSE 0

\* c put behind the last chunk of sorted that does not sort after it.
Insert(sorted, c) ==
    LET after == {i \in 1..Len(sorted) : Compare(sorted[i], c) > 0}
        at == IF after = {} THEN Len(sorted) + 1
              ELSE CHOOSE i \in after : \A j \in after : i <= j
    IN  SubSeq(sorted, 1, at - 1) \o <<c>> \o SubSeq(sorted, at, Len(sorted))

RECURSIVE SortFrom(_, _, _)
SortFrom(chunks, i, sorted) ==
    IF i > Len(chunks) THEN sorted
    ELSE SortFrom(chunks, i + 1, Insert(sorted, chunks[i]))

\* A sort that is left out: the chunks stay in arrival order.
SortChunksLeftOut(chunks) == chunks

SortChunks(chunks) == SortFrom(chunks, 1, <<>>)

RECURSIVE JoinFrom(_, _)
JoinFrom(chunks, i) ==
    IF i > Len(chunks) THEN "" ELSE chunks[i].content \o JoinFrom(chunks, i + 1)

\* chunks.map(c => c.content).join("")
JoinContents(chunks) == JoinFrom(chunks, 1)

(***************************************************************************)
(* handleTenMessage, on the dispatcher's state                             *)
(* [messageList, currentInProgressMessage, turnIdCounter].  The slot       *)
(* currentInProgressMessage is a sequence: empty for null, else the one    *)
(* message it holds.                                                       *)
(***************************************************************************)
WhiteSpace == {" ", "\t", "\n", "\r", "\f"}

\* str.trim(): str without its leading and trailing white space.
Trim(str) ==
    LET inked == {i \in 1..Len(str) : CharAt(str, i) \notin WhiteSpace} IN
    IF inked = {} THEN ""
    ELSE SubSeq(str, CHOOSE i \in inked : \A j \in inked : i <= j,
                     CHOOSE i \in inked : \A j \in inked : i >= j)

\* The check without the trim.
IsEmptyTextUntrimmed(text) == ~Truthy(text)

\* !parsedMsg.text || parsedMsg.text.trim().length === 0
IsEmptyText(text) == ~Truthy(text) \/ Len(Trim(text.s)) = 0

\* The message built with its text trimmed.
NewMessageTrimmed(parsedMsg, turn_id) ==
    [turn_id |-> turn_id,
     uid |-> IF parsedMsg.role.t = "string" /\ parsedMsg.role.s = "assistant" THEN 0 ELSE 1,
     text |-> Trim(parsedMsg.text.s),
     status |-> IF Truthy(parsedMsg.is_final) THEN 1 ELSE 0,
     timestamp |-> parsedMsg.text_ts]

\* The message built without reading the turn counter.
NewMessageTurnZero(parsedMsg, turn_id) ==
    [turn_id |-> 0,
     uid |-> IF parsedMsg.role.t = "string" /\ parsedMsg.role.s = "assistant" THEN 0 ELSE 1,
     text |-> parsedMsg.text.s,
     status |-> IF Truthy(parsedMsg.is_final) THEN 1 ELSE 0,
     timestamp |-> parsedMsg.text_ts]

\* The message handleTenMessage builds from a record.
NewMessage(parsedMsg, turn_id) ==
    [turn_id |-> turn_id,
     uid |-> IF parsedMsg.role.t = "string" /\ parsedMsg.role.s = "assistant" THEN 0 ELSE 1,
     text |-> parsedMsg.text.s,
     status |-> IF Truthy(parsedMsg.is_final) THEN 1 ELSE 0,
     timestamp |-> parsedMsg.text_ts]

\* turnIdCounterRef.current++ done on entry, before the record is looked at.
handleTenMessageCountsFirst(st, parsedMsg) ==
    [threw |-> parsedMsg.t = "null",
     st |-> [st EXCEPT !.turnIdCounter = st.turnIdCounter + 1]]

\* handleTenMessage without setCurrentInProgressMessage(null).
handleTenMessageKeepsSlot(st, parsedMsg) ==
    IF parsedMsg.t = "null" THEN [threw |-> TRUE, st |-> st]
    ELSE IF Truthy(parsedMsg.text) /\ parsedMsg.text.t # "string"
    THEN [threw |-> TRUE, st |-> st]
    ELSE IF IsEmptyText(parsedMsg.text) THEN [threw |-> FALSE, st |-> st]
    ELSE LET newMessage == NewMessage(parsedMsg, st.turnIdCounter) IN
         IF Truthy(parsedMsg.is_final)
         THEN [threw |-> FALSE,
               st |-> [messageList |-> Append(st.messageList, newMessage),
                       currentInProgressMessage |-> st.currentInProgressMessage,
                       turnIdCounter |-> st.turnIdCounter + 1]]
         ELSE [threw |-> FALSE,
               st |-> [messageList |-> st.messageList,
                       currentInProgressMessage |-> <<newMessage>>,
                       turnIdCounter |-> st.turnIdCounter + 1]]

\* handleTenMessage with setMessageList([newMessage]).
handleTenMessageReplacesList(st, parsedMsg) ==
    IF parsedMsg.t = "null" THEN [threw |-> TRUE, st |-> st]
    ELSE IF Truthy(parsedMsg.text) /\ parsedMsg.text.t # "string"
    THEN [threw |-> TRUE, st |-> st]
    ELSE IF IsEmptyText(parsedMsg.text) THEN [threw |-> FALSE, st |-> st]
    ELSE LET newMessage == NewMessage(parsedMsg, st.turnIdCounter) IN
         IF Truthy(parsedMsg.is_final)
         THEN [threw |-> FALSE,
               st |-> [messageList |-> <<newMessage>>,
                       currentInProgressMessage |-> <<>>,
                       turnIdCounter |-> st.turnIdCounter + 1]]
         ELSE [threw |-> FALSE,
               st |-> [messageList |-> st.messageList,
                       currentInProgressMessage |-> <<newMessage>>,
                       turnIdCounter |-> st.turnIdCounter + 1]]

\* handleTenMessage with setMessageList(prev => [newMessage, ...prev]).
handleTenMessagePrepends(st, parsedMsg) ==
    IF parsedMsg.t = "null" THEN [threw |-> TRUE, st |-> st]
    ELSE IF Truthy(parsedMsg.text) /\ parsedMsg.text.t # "string"
    THEN [threw |-> TRUE, st |-> st]
    ELSE IF IsEmptyText(parsedMsg.text) THEN [threw |-> FALSE, st |-> st]
    ELSE LET newMessage == NewMessage(parsedMsg, st.turnIdCounter) IN
         IF Truthy(parsedMsg.is_final)
         THEN [threw |-> FALSE,
               st |-> [messageList |-> <<newMessage>> \o st.messageList,
                       currentInProgressMessage |-> <<>>,
                       turnIdCounter |-> st.turnIdCounter + 1]]
         ELSE [threw |-> FALSE,
               st |-> [messageList |-> st.messageList,
                       currentInProgressMessage |-> <<newMessage>>,
                       turnIdCounter |-> st.turnIdCounter + 1]]

\* handleTenMessage counting the final records only: a partial record reads
\* the counter and leaves it.
handleTenMessageCountsFinals(st, parsedMsg) ==
    IF parsedMsg.t = "null" THEN [threw |-> TRUE, st |-> st]
    ELSE IF Truthy(parsedMsg.text) /\ parsedMsg.text.t # "string"
    THEN [threw |-> TRUE, st |-> st]
    ELSE IF IsEmptyText(parsedMsg.text) THEN [threw |-> FALSE, st |-> st]
    ELSE LET newMessage == NewMessage(parsedMsg, st.turnIdCounter) IN
         IF Truthy(parsedMsg.is_final)
         THEN [threw |-> FALSE,
               st |-> [messageList |-> Append(st.messageList, newMessage),
                       currentInProgressMessage |-> <<>>,
                       turnIdCounter |-> st.turnIdCounter + 1]]
         ELSE [threw |-> FALSE,
               st |-> [messageList |-> st.messageList,
                       currentInProgressMessage |-> <<newMessage>>,
                       turnIdCounter |-> st.turnIdCounter]]

\* The state after handleTenMessage(parsedMsg); threw is TRUE where it throws
\* a TypeError: reading a property of null, or calling trim on a truthy text
\* that is no string.
handleTenMessage(st, parsedMsg) ==
    IF parsedMsg.t = "null" THEN [threw |-> TRUE, st |-> st]
    ELSE IF Truthy(parsedMsg.text) /\ parsedMsg.text.t # "string"
    THEN [threw |-> TRUE, st |-> st]
    ELSE IF IsEmptyText(parsedMsg.text) THEN [threw |-> FALSE, st |-> st]
    ELSE LET newMessage == NewMessage(parsedMsg, st.turnIdCounter) IN
         IF Truthy(parsedMsg.is_final)
         THEN [threw |-> FALSE,
               st |-> [messageList |-> Append(st.messageList, newMessage),
                       currentInProgressMessage |-> <<>>,
                       turnIdCounter |-> st.turnIdCounter + 1]]
         ELSE [threw |-> FALSE,
               st |-> [messageList |-> st.messageList,
                       currentInProgressMessage |-> <<newMessage>>,
                       turnIdCounter |-> st.turnIdCounter + 1]]

(***************************************************************************)
(* The reassembly of a completed entry: sort, join, decode, parse,         *)
(* dispatch.  outcome names the exception the inner try caught ("atob",    *)
(* "syntax", "type") or is "returned" when handleTenMessage returned.      *)
(***************************************************************************)
Reassemble(st, chunks) ==
    LET completeBase64 == JoinContents(SortChunks(chunks))
        jsonStr == base64ToUtf8(completeBase64)
        parsed == JSONParse(jsonStr.text)
        handled == handleTenMessage(st, parsed.value)
    IN  IF ~jsonStr.ok
        THEN [outcome |-> "atob", payload |-> completeBase64, msg |-> JsonNull, st |-> st]
        ELSE IF ~parsed.ok
        THEN [outcome |-> "syntax", payload |-> completeBase64, msg |-> JsonNull, st |-> st]
        ELSE IF handled.threw
        THEN [outcome |-> "type", payload |-> completeBase64, msg |-> parsed.value,
              st |-> handled.st]
        ELSE [outcome |-> "returned", payload |-> completeBase64, msg |-> parsed.value,
              st |-> handled.st]

\* A check for the sentinel that never matches.
IsUnknownTotalNever(chunk) == FALSE

\* total_parts === -1: the sender's "???".
IsUnknownTotal(chunk) == NumStrictEq(chunk.total_parts, JsNum(-1))

\* The length compared before the chunk is counted.
IsCompleteBeforePush(chunks, total_parts) ==
    NumStrictEq(JsNum(Len(chunks) + 1), total_parts)

\* messageCacheRef.current[message_id].length === total_parts
IsComplete(chunks, total_parts) == NumStrictEq(JsNum(Len(chunks)), total_parts)

\* The condition of the timer's callback:
\* messageCacheRef.current[message_id]?.length !== total_parts
TimerDiscards(cache, timer) ==
    \/ timer.message_id \notin DOMAIN cache
    \/ ~NumStrictEq(JsNum(Len(cache[timer.message_id])), timer.total_parts)

\* The whole cache cleared instead of one entry.
DeleteAll(cache, message_id) == [k \in {} |-> <<>>]

\* The entry emptied instead of deleted.
DeleteKeepsEntry(cache, message_id) ==
    [k \in DOMAIN cache |-> IF k = message_id THEN <<>> ELSE cache[k]]

\* delete messageCacheRef.current[message_id]
Delete(cache, message_id) == [k \in DOMAIN cache \ {message_id} |-> cache[k]]

\* messageCacheRef.current[message_id] = chunks
Store(cache, message_id, chunks) ==
    [k \in DOMAIN cache \cup {message_id} |-> IF k = message_id THEN chunks ELSE cache[k]]

EmptyCache == [k \in {} |-> <<>>]

\* A timer set with no delay.
NewTimerWithoutDelay(chunk) ==
    [message_id |-> chunk.message_id, total_parts |-> chunk.total_parts,
     remaining |-> 0, first |-> chunk.seq]

\* setTimeout(() => ..., 5000): the callback keeps the message_id and the
\* total_parts of the chunk that created the entry.  first is not a part of
\* the program's timer: it is the arrival that set it.
NewTimer(chunk) ==
    [message_id |-> chunk.message_id, total_parts |-> chunk.total_parts,
     remaining |-> EvictionDelay, first |-> chunk.seq]

(***************************************************************************)
(* The volume monitor: the effect of useAgoraVideoClient that samples the  *)
(* remote audio track every 100 ms and decides isAgentSpeaking, and the    *)
(* handlers of the publish events that set the track.  The effect depends  *)
(* on [remoteAudioTrack, isAgentSpeaking]: when either changes, its        *)
(* cleanup clears the interval and the effect runs again, with a new       *)
(* empty volumes array and a new interval.                                 *)
(***************************************************************************)
\* At most this many volume samples are taken in one behaviour.
MaxSamples == 5
\* if (volumes.length > 3) volumes.shift()
WindowSize == 3
\* volumes.length >= 2
MinSamples == 2

\* What getVolumeLevel() returns: silence and two levels of sound.
VolumeLevels == {0, 1, 2}

\* The audio tracks users publish; NoTrack is the null of useState(null).
Tracks == {"track1", "track2"}
NoTrack == "null"

\* volumes.push(volume) with no shift after it.
PushUnbounded(window, volume) == Append(window, volume)

\* volumes.push(volume); if (volumes.length > 3) volumes.shift()
Push(window, volume) ==
    LET pushed == Append(window, volume) IN
    IF Len(pushed) > WindowSize THEN Tail(pushed) ELSE pushed

\* isAllZero without the test of the length.
isAllZeroOfAny(window) == \A i \in 1..Len(window) : window[i] = 0

\* volumes.length >= 2 && volumes.every((v) => v === 0)
isAllZero(window) ==
    Len(window) >= MinSamples /\ \A i \in 1..Len(window) : window[i] = 0

\* hasSound that asks of every sample to be a sound.
hasSoundThroughout(window) ==
    Len(window) >= MinSamples /\ \A i \in 1..Len(window) : window[i] > 0

\* volumes.length >= 2 && volumes.some((v) => v > 0)
hasSound(window) ==
    Len(window) >= MinSamples /\ \E i \in 1..Len(window) : window[i] > 0

\* A callback that decides by the newest sample alone.
DecideByLastSample(window, speaking) ==
    IF window[Len(window)] = 0 /\ speaking THEN FALSE
    ELSE IF hasSound(window) /\ ~speaking THEN TRUE
    ELSE speaking

\* The state the interval's callback leaves, from the window it pushed to and
\* the isAgentSpeaking of its closure.
Decide(window, speaking) ==
    IF isAllZero(window) /\ speaking THEN FALSE
    ELSE IF hasSound(window) /\ ~speaking THEN TRUE
    ELSE speaking

\* An effect that keeps its array when it runs again.
MonitorEffectKeeps(track, speaking, track2, speaking2, window) ==
    IF track2 = NoTrack THEN <<>> ELSE window

\* The volumes array after the state became <<track2, speaking2>>: the array
\* of the running effect when no dependency changed, else the new effect's
\* empty array (no effect runs an interval while the track is null).
MonitorEffect(track, speaking, track2, speaking2, window) ==
    IF track2 = NoTrack THEN <<>>
    ELSE IF track2 # track \/ speaking2 # speaking THEN <<>>
    ELSE window

(***************************************************************************)
(* The amplitude visualizer, useAudioVisualization                         *)
(* (src/hooks/useAudioVisualization.ts).  Its numbers are kept as exact    *)
(* fractions [n, d], d > 0, in lowest terms.                               *)
(***************************************************************************)
\* At most this many animation frames run in one behaviour.
MaxFrames == 4
\* The defaults of the options the program leaves as they are.
barCount == 24
amplification == 4
updateInterval == 33
\* analyser.frequencyBinCount, half of the fftSize of 256.
frequencyBinCount == 128
\* The greatest value of a byte of the frequency data.
MaxByte == 255

RECURSIVE Gcd(_, _)
Gcd(a, b) == IF b = 0 THEN a ELSE Gcd(b, a % b)

Abs(k) == IF k < 0 THEN -k ELSE k

\* The fraction n/d, d > 0, in lowest terms.
Rat(n, d) == LET g == Gcd(Abs(n), d) IN [n |-> n \div g, d |-> d \div g]

Whole(k) == [n |-> k, d |-> 1]

RatAdd(x, y) == Rat(x.n * y.d + y.n * x.d, x.d * y.d)
RatSub(x, y) == Rat(x.n * y.d - y.n * x.d, x.d * y.d)
RatMul(x, y) == Rat(x.n * y.n, x.d * y.d)
\* x / y, for y > 0.
RatDiv(x, y) == Rat(x.n * y.d, x.d * y.n)
RatLess(x, y) == x.n * y.d < y.n * x.d
RatLeq(x, y) == x.n * y.d <= y.n * x.d

\* Math.min(x, y)
MathMin(x, y) == IF RatLess(y, x) THEN y ELSE x

\* Math.floor(x) in the place of Math.round(x).
MathFloor(x) == x.n \div x.d

\* Math.round(x): the integer nearest to x, halves going up.
MathRound(x) == (2 * x.n + x.d) \div (2 * x.d)

\* The amplified volume with no Math.min(1, ...).
RawVolumeUnclamped(sum) ==
    RatMul(Rat(sum, frequencyBinCount * MaxByte), Whole(amplification))

\* Math.min(1, (averageVolume / 255) * amplification), averageVolume being
\* sum / dataArray.length.
RawVolume(sum) ==
    MathMin(Whole(1), RatMul(RatDiv(Rat(sum, frequencyBinCount), Whole(MaxByte)),
                             Whole(amplification)))

\* The threshold: below it 0, from it on the rest of the range rescaled.
ApplyThreshold(rawVolume, threshold) ==
    IF RatLess(rawVolume, threshold) THEN Whole(0)
    ELSE RatDiv(RatSub(rawVolume, threshold), RatSub(Whole(1), threshold))

\* Instant attack, slow decay.
SmoothedVolume(rawVolume, previousSmoothedVolume, volumeDecay) ==
    IF RatLess(previousSmoothedVolume, rawVolume) THEN rawVolume
    ELSE RatMul(previousSmoothedVolume, volumeDecay)

\* The lit count moved towards its target from 0, not from where it is.
NewLitCountFromZero(targetLitCount, currentLitCount, volumeDecay, attackRate) ==
    IF RatLess(currentLitCount, targetLitCount)
    THEN RatMul(targetLitCount, attackRate)
    ELSE RatMul(currentLitCount, volumeDecay)

\* The lit count moved towards its target.
NewLitCount(targetLitCount, currentLitCount, volumeDecay, attackRate) ==
    IF RatLess(currentLitCount, targetLitCount)
    THEN RatAdd(currentLitCount,
                RatMul(RatSub(targetLitCount, currentLitCount), attackRate))
    ELSE RatMul(currentLitCount, volumeDecay)

\* Array.from({ length: barCount }, (_, i) => i < displayLitCount ? 1 : 0)
VisualizationData(displayLitCount) ==
    [k \in 1..barCount |-> IF k - 1 < displayLitCount THEN 1 ELSE 0]

\* Array(barCount).fill(0)
EmptyBars == [k \in 1..barCount |-> 0]

\* What updateData computes from the sum of the frequency bytes and the refs.
UpdateData(sum, options, previousSmoothedVolume, currentLitCount) ==
    LET rawVolume == ApplyThreshold(RawVolume(sum), options.threshold)
        smoothedVolume == SmoothedVolume(rawVolume, previousSmoothedVolume,
                                         options.volumeDecay)
        targetLitCount == RatMul(smoothedVolume, Whole(barCount))
        newLitCount == NewLitCount(targetLitCount, currentLitCount,
                                   options.volumeDecay, options.attackRate)
    IN  [smoothedVolume |-> smoothedVolume,
         targetLitCount |-> targetLitCount,
         newLitCount |-> newLitCount,
         visualizationData |-> VisualizationData(MathRound(newLitCount))]

\* The options a component may pass: threshold in [0, 1), volumeDecay and
\* attackRate in [0, 1].
Options ==
    [threshold : {Whole(0), Rat(1, 4), Rat(1, 2)},
     volumeDecay : {Whole(0), Rat(1, 2), Rat(3, 4), Whole(1)},
     attackRate : {Whole(0), Rat(1, 4), Rat(1, 2), Whole(1)}]

NoOptions == [threshold |-> Whole(0), volumeDecay |-> Whole(0), attackRate |-> Whole(0)]

\* The sums of the frequency bytes getByteFrequencyData may give: silence,
\* 1/8, 1/4 and 1/2 of the amplified range, and every byte at its greatest.
ByteSums == {0, 1020, 2040, 4080, 32640}

\* now - lastUpdateRef.current >= updateInterval with no interval.
ShouldPublishAlways(now, last) == TRUE

\* now - lastUpdateRef.current >= updateInterval
ShouldPublish(now, last) == now - last >= updateInterval

\* At most this many audio contexts are created in one behaviour.
MaxSetups == 2

\* How setupAudioAnalysis may end: it runs to its end, or it throws, either
\* before the audio context is made (getMediaStreamTrack, new MediaStream, new
\* AudioContext) or after it (createAnalyser, createMediaStreamSource,
\* connect).
SetupOutcomes == {"done", "throwsBefore", "throwsAfter"}

\* new AudioContext(), with what became of its source node: "none" while none
\* is connected, "connected", "disconnected".  Its state is "running", then
\* "closing" from close() on and "closed" once the close has completed; the
\* state attribute reads "closed" only then.
NewAudioContext(source) == [state |-> "running", source |-> source]

\* A cancelAnimationFrame that cancels nothing.
CancelNoAnimationFrame(reqs, id) == reqs

\* cancelAnimationFrame(id), if (animationIdRef.current)
CancelAnimationFrame(reqs, id) ==
    IF id # 0 THEN {r \in reqs : r.id # id} ELSE reqs

\* sourceRef.current.disconnect(), if (sourceRef.current)
Disconnect(contexts, ref) ==
    IF ref # 0 THEN [contexts EXCEPT ![ref].source = "disconnected"] ELSE contexts

\* audioContextRef.current.close(),
\* if (audioContextRef.current && audioContextRef.current.state !== "closed")
Close(contexts, ref) ==
    IF ref # 0 /\ contexts[ref].state # "closed"
    THEN [contexts EXCEPT ![ref].state = "closing"]
    ELSE contexts

\* The contexts once the source and the context of the refs are let go.
TearDown(contexts, source, context) == Close(Disconnect(contexts, source), context)

\* The history of the frames of equal frequency bytes: the sum of the bytes,
\* the refs after the first of these frames, and whether the rounded lit count
\* has changed since.
NoSteady ==
    [on |-> FALSE, sum |-> 0, smoothedVolume |-> Whole(0),
     currentLitCount |-> Whole(0), moved |-> FALSE]

SteadyAfter(st, sum, updated, lit) ==
    IF st.on /\ st.sum = sum
    THEN [st EXCEPT !.moved = @ \/ MathRound(updated.newLitCount) # MathRound(lit)]
    ELSE [on |-> TRUE, sum |-> sum, smoothedVolume |-> updated.smoothedVolume,
          currentLitCount |-> updated.newLitCount, moved |-> FALSE]

\* The milliseconds between two animation frames.
FrameGaps == {16, 17}

\* Date.now() when the component is mounted.
Epoch == 1000

(***************************************************************************)
(* The datagrams the transport may deliver, each any number of times and   *)
(* in any order: the three parts of a final user message and the two parts *)
(* of an agent's partial message, a part that declares another total, a    *)
(* part of unknown total, and three one-part messages (blank text, null,   *)
(* and the final user message whole).                                      *)
(***************************************************************************)
Datagrams ==
    { "m1|0|3|eyJ0ZXh0IjoiYSIs",
      "m1|1|3|ImlzX2ZpbmFs",
      "m1|2|3|Ijp0cnVlfQ==",
      "m1|1|2|ImlzX2ZpbmFs",
      "m1|1|???|ImlzX2ZpbmFs",
      "m2|0|2|eyJ0ZXh0IjoiYiIsInJvbGUi",
      "m2|1|2|OiJhc3Npc3RhbnQifQ==",
      "m2|0|1|eyJ0ZXh0IjoiICJ9",
      "m2|0|1|bnVsbA==",
      "m2|0|1|eyJ0ZXh0IjoiYSIsImlzX2ZpbmFsIjp0cnVlfQ==" }

\* Two final messages with timestamps: o1, of timestamp 5, in two parts, and
\* o2, of timestamp 9, in one.
OrderDatagrams ==
    { "o1|0|2|eyJ0ZXh0IjoiYyIsImlzX2ZpbmFs",
      "o1|1|2|Ijp0cnVlLCJ0ZXh0X3RzIjo1fQ==",
      "o2|0|1|eyJ0ZXh0IjoiZCIsImlzX2ZpbmFsIjp0cnVlLCJ0ZXh0X3RzIjo5fQ==" }

\* The chunk of each datagram, parsed once.
Wire == [data \in Datagrams \cup OrderDatagrams |-> ParseChunk(data, 0)]

VARIABLES
    messageCache,              \* messageCacheRef.current: message_id -> chunks
    timers,                    \* the pending eviction timers, oldest first
    messageList,               \* the finalized messages
    currentInProgressMessage,  \* the in-progress slot: <<>> or <<message>>
    turnIdCounter,             \* turnIdCounterRef.current
    isConnected,               \* the stream-message listener is registered
    arrivals,                  \* history: the number of datagrams that arrived
    attempts,                  \* history: the arrivals of each reassembly, in order
    evicted,                   \* history: the arrivals a timer discarded
    fate,                      \* history: message_id -> what became of its last entry
    event,                     \* history: the handler that ran last and what it did
    remoteAudioTrack,          \* the remote audio track, or NoTrack
    isAgentSpeaking,           \* TRUE for speaking, FALSE for listening
    volumes,                   \* the volumes array of the running monitor effect
    samples,                   \* history: the number of volume samples taken
    heard,                     \* history: the last samples of the current track
    disturbed,                 \* history: a handler ran since the track's last sample
    mounted,                   \* useAudioVisualization is in use
    options,                   \* its options
    localAudioTrack,           \* its track, or NoTrack
    enabled,                   \* its enabled
    cleanup,                   \* the effect that ran last returned a cleanup
    audioContexts,             \* the audio contexts created, in order
    audioContextRef,           \* audioContextRef.current: 0 for null, or a context
    analyserRef,               \* analyserRef.current: 0 for null, or the analyser of a context
    sourceRef,                 \* sourceRef.current: 0 for null, or the source of a context
    animationIdRef,            \* animationIdRef.current: 0 for null, or a request id
    requests,                  \* the animation frames requested and not run or cancelled
    frequencyData,             \* the bars it returns
    smoothedVolume,            \* smoothedVolumeRef.current
    currentLitCount,           \* currentLitCountRef.current
    lastUpdate,                \* lastUpdateRef.current
    clock,                     \* Date.now()
    frames,                    \* history: the number of times updateData ran
    published,                 \* history: the lit count of the frame that set the bars
    steady,                    \* history: the frames since the frequency bytes last changed
    micState,                  \* "idle" or "listening"
    isMuted,                   \* useAgoraVideoClient's isMuted
    rtcHelperRef,              \* rtcHelperRef.current is not null
    listening,                 \* the client has a stream-message listener
    isConnecting,              \* useTenAgent's isConnecting
    error,                     \* its error: "" for null, or the message
    connectionInfo,            \* its connectionInfo: 0 for null, or the channel of the info
    channelRef,                \* channelRef.current: 0 for null, or a channel
    pingIntervalRef,           \* pingIntervalRef.current: 0 for none, or the channel its interval pings
    generated,                 \* history: the number of channel names generated
    starting,                  \* the calls of startAgent that await a response
    running,                   \* the channels whose agent the service runs
    handleStart,               \* what handleStart awaits, or "idle"
    stopping,                  \* the calls of handleStop that await a response
    unmounted                  \* the component is unmounted

vars == <<messageCache, timers, messageList, currentInProgressMessage, turnIdCounter,
          isConnected, arrivals, attempts, evicted, fate, event,
          remoteAudioTrack, isAgentSpeaking, volumes, samples, heard, disturbed,
          mounted, options, localAudioTrack, enabled, cleanup, audioContexts,
          audioContextRef, analyserRef, sourceRef, animationIdRef, requests,
          frequencyData, smoothedVolume, currentLitCount, lastUpdate, clock, frames,
          published, steady,
          micState, isMuted, rtcHelperRef, listening,
          isConnecting, error, connectionInfo, channelRef, pingIntervalRef, generated,
          starting, running, handleStart, stopping, unmounted>>

session == <<micState, isMuted, rtcHelperRef, listening>>

agent == <<isConnecting, error, connectionInfo, channelRef, pingIntervalRef, generated,
           starting, running>>

component == <<handleStart, stopping, unmounted>>

client == <<session, agent, component>>

pipeline == <<localAudioTrack, enabled, cleanup, audioContexts, audioContextRef,
              analyserRef, sourceRef, animationIdRef, requests>>

visualizer == <<mounted, options, pipeline, frequencyData, smoothedVolume,
                currentLitCount, lastUpdate, clock, frames, published, steady>>

monitor == <<remoteAudioTrack, isAgentSpeaking, volumes, samples, heard, disturbed>>

dispatcher == <<messageList, currentInProgressMessage, turnIdCounter>>

history == <<attempts, evicted, fate>>

NoChunk == ParseChunk("|||", 0)

\* The response of a request to the agent service: the request threw, or it
\* resolved to a record with a code and, or not, with data.
NoResult == [threw |-> FALSE, code |-> "", data |-> FALSE]

\* What a handler that did nothing of the kind records.
Quiet(kind) ==
    [kind |-> kind, data |-> "", chunk |-> NoChunk, message_id |-> "", was |-> "",
     dropped |-> FALSE,
     created |-> FALSE, completed |-> FALSE, collected |-> <<>>, payload |-> "",
     outcome |-> "none", msg |-> JsonNull, own |-> FALSE, discarded |-> FALSE,
     removed |-> <<>>, volume |-> 0, pushed |-> <<>>, spoke |-> FALSE,
     sum |-> 0, lit |-> Whole(0), target |-> Whole(0), threw |-> FALSE,
     channel |-> 0, result |-> NoResult]

DispatcherState ==
    [messageList |-> messageList,
     currentInProgressMessage |-> currentInProgressMessage,
     turnIdCounter |-> turnIdCounter]

SetDispatcher(st) ==
    /\ messageList' = st.messageList
    /\ currentInProgressMessage' = st.currentInProgressMessage
    /\ turnIdCounter' = st.turnIdCounter

Seqs(chunks) == {chunks[i].seq : i \in 1..Len(chunks)}

\* What became of the last entry of a message_id: "pending" while it is in
\* the cache, then "completed", "evicted" or (by leaveChannel) "cleared".
Mark(table, message_id, what) ==
    [k \in DOMAIN table \cup {message_id} |-> IF k = message_id THEN what ELSE table[k]]

FateOf(message_id) == IF message_id \in DOMAIN fate THEN fate[message_id] ELSE ""

Init ==
    /\ messageCache = EmptyCache
    /\ timers = <<>>
    /\ messageList = <<>>
    /\ currentInProgressMessage = <<>>
    /\ turnIdCounter = 0
    /\ isConnected = FALSE
    /\ arrivals = 0
    /\ attempts = <<>>
    /\ evicted = {}
    /\ fate = [k \in {} |-> ""]
    /\ event = Quiet("init")
    /\ remoteAudioTrack = NoTrack
    /\ isAgentSpeaking = FALSE
    /\ volumes = <<>>
    /\ samples = 0
    /\ heard = <<>>
    /\ disturbed = FALSE
    /\ mounted = FALSE
    /\ options = NoOptions
    /\ localAudioTrack = NoTrack
    /\ enabled = FALSE
    /\ cleanup = FALSE
    /\ audioContexts = <<>>
    /\ audioContextRef = 0
    /\ analyserRef = 0
    /\ sourceRef = 0
    /\ animationIdRef = 0
    /\ requests = {}
    /\ frequencyData = EmptyBars
    /\ smoothedVolume = Whole(0)
    /\ currentLitCount = Whole(0)
    /\ lastUpdate = 0
    /\ clock = Epoch
    /\ frames = 0
    /\ published = Whole(0)
    /\ steady = NoSteady
    /\ micState = "idle"
    /\ isMuted = FALSE
    /\ rtcHelperRef = FALSE
    /\ listening = FALSE
    /\ isConnecting = FALSE
    /\ error = ""
    /\ connectionInfo = 0
    /\ channelRef = 0
    /\ pingIntervalRef = 0
    /\ generated = 0
    /\ starting = <<>>
    /\ running = {}
    /\ handleStart = "idle"
    /\ stopping = <<>>
    /\ unmounted = FALSE

\* setIsAgentSpeaking(false) of leaveChannel, and the monitor effect after it;
\* the remote audio track is left as it is.
LeaveMonitor ==
    /\ isAgentSpeaking' = FALSE
    /\ volumes' = MonitorEffect(remoteAudioTrack, isAgentSpeaking,
                                remoteAudioTrack, FALSE, volumes)
    /\ disturbed' = (disturbed \/ remoteAudioTrack # NoTrack)
    /\ UNCHANGED <<remoteAudioTrack, samples, heard>>

\* leaveChannel whose leave() resolved: the listener is removed, the cache and
\* the transcript are cleared, the client is idle; the timers, the turn counter
\* and isMuted are left as they are.
Left ==
    /\ micState' = "idle"
    /\ rtcHelperRef' = FALSE
    /\ listening' = FALSE
    /\ UNCHANGED isMuted
    /\ isConnected' = FALSE
    /\ LeaveMonitor
    /\ messageCache' = EmptyCache
    /\ messageList' = <<>>
    /\ currentInProgressMessage' = <<>>
    /\ fate' = [k \in DOMAIN fate |-> IF fate[k] = "pending" THEN "cleared" ELSE fate[k]]
    /\ event' = Quiet("leave")
    /\ UNCHANGED <<timers, turnIdCounter, arrivals, attempts, evicted, visualizer>>

\* leaveChannel
LeaveChannel == Left /\ UNCHANGED <<agent, component>>

\* joinChannel whose requests resolved: leaveChannel first when connected,
\* then the client is listening and the listener is registered.
Joined ==
    /\ micState' = "listening"
    /\ rtcHelperRef' = TRUE
    /\ listening' = TRUE
    /\ UNCHANGED isMuted
    /\ isConnected' = TRUE
    /\ IF isConnected THEN LeaveMonitor ELSE UNCHANGED monitor
    /\ messageCache' = IF isConnected THEN EmptyCache ELSE messageCache
    /\ messageList' = IF isConnected THEN <<>> ELSE messageList
    /\ currentInProgressMessage' = IF isConnected THEN <<>> ELSE currentInProgressMessage
    /\ fate' = IF isConnected
               THEN [k \in DOMAIN fate |-> IF fate[k] = "pending" THEN "cleared" ELSE fate[k]]
               ELSE fate
    /\ event' = Quiet("join")
    /\ UNCHANGED <<timers, turnIdCounter, arrivals, attempts, evicted, visualizer>>

\* joinChannel
JoinChannel == Joined /\ UNCHANGED <<agent, component>>

\* handleStreamMessage(data), run by the stream-message listener.
HandleStreamMessage(data) ==
    /\ isConnected
    /\ arrivals < MaxArrivals
    /\ arrivals' = arrivals + 1
    /\ UNCHANGED <<isConnected, monitor, visualizer, client>>
    /\ LET chunk == [Wire[data] EXCEPT !.seq = arrivals + 1]
           message_id == chunk.message_id
           fresh == message_id \notin DOMAIN messageCache
           collected == (IF fresh THEN <<>> ELSE messageCache[message_id]) \o <<chunk>>
           done == Reassemble(DispatcherState, collected)
           seen == [Quiet("chunk") EXCEPT !.data = data, !.chunk = chunk,
                                          !.message_id = message_id,
                                          !.was = FateOf(message_id)]
       IN  IF IsUnknownTotal(chunk)
           THEN /\ event' = [seen EXCEPT !.dropped = TRUE]
                /\ UNCHANGED <<messageCache, timers, dispatcher, history>>
           ELSE /\ timers' = IF fresh THEN Append(timers, NewTimer(chunk)) ELSE timers
                /\ IF IsComplete(collected, chunk.total_parts)
                   THEN /\ messageCache' = Delete(messageCache, message_id)
                        /\ SetDispatcher(done.st)
                        /\ attempts' = Append(attempts, Seqs(collected))
                        /\ fate' = Mark(fate, message_id, "completed")
                        /\ event' = [seen EXCEPT !.created = fresh, !.completed = TRUE,
                                                 !.collected = collected,
                                                 !.payload = done.payload,
                                                 !.outcome = done.outcome,
                                                 !.msg = done.msg]
                        /\ UNCHANGED evicted
                   ELSE /\ messageCache' = Store(messageCache, message_id, collected)
                        /\ fate' = Mark(fate, message_id, "pending")
                        /\ event' = [seen EXCEPT !.created = fresh,
                                                 !.collected = collected]
                        /\ UNCHANGED <<dispatcher, attempts, evicted>>

\* The callback of the oldest eviction timer, when its delay has passed.  The
\* timers all have the same delay, so they fire in the order they were set.
\* first (history) is the arrival that set the timer; own tells that the entry
\* the callback finds is the one that arrival created.
EvictionTimer ==
    /\ timers # <<>>
    /\ Head(timers).remaining = 0
    /\ timers' = Tail(timers)
    /\ LET timer == Head(timers)
           held == IF timer.message_id \in DOMAIN messageCache
                   THEN messageCache[timer.message_id] ELSE <<>>
           fired == [Quiet("timer") EXCEPT !.message_id = timer.message_id,
                                           !.was = FateOf(timer.message_id),
                                           !.own = held # <<>> /\ held[1].seq = timer.first]
       IN  IF TimerDiscards(messageCache, timer)
           THEN /\ messageCache' = Delete(messageCache, timer.message_id)
                /\ evicted' = evicted \cup Seqs(held)
                /\ fate' = IF held = <<>> THEN fate
                           ELSE Mark(fate, timer.message_id, "evicted")
                /\ event' = [fired EXCEPT !.discarded = TRUE, !.removed = held]
                /\ UNCHANGED attempts
           ELSE /\ event' = fired
                /\ UNCHANGED <<messageCache, history>>
    /\ UNCHANGED <<dispatcher, isConnected, arrivals, monitor, visualizer, client>>

\* Time passes: by TickMs, or up to the delay of the oldest timer if that is
\* sooner.  No time passes while a timer is due.
Tick ==
    /\ timers # <<>>
    /\ Head(timers).remaining > 0
    /\ LET d == IF Head(timers).remaining < TickMs THEN Head(timers).remaining ELSE TickMs
       IN  timers' = [i \in 1..Len(timers) |->
                         [timers[i] EXCEPT !.remaining = timers[i].remaining - d]]
    /\ event' = Quiet("tick")
    /\ UNCHANGED <<messageCache, dispatcher, isConnected, arrivals, history, monitor,
                   visualizer, client>>

Next ==
    \/ JoinChannel
    \/ LeaveChannel
    \/ \E data \in Datagrams : HandleStreamMessage(data)
    \/ EvictionTimer
    \/ Tick

Spec == Init /\ [][Next]_vars

(***************************************************************************)
(* The dispatcher on its own: handleTenMessage run on records of every     *)
(* shape of text, is_final, role and text_ts.                              *)
(***************************************************************************)
\* At most this many turn ids are given out in one behaviour of SpecDispatch.
MaxTurns == 3

TenMessages ==
    {JsObject(text, is_final, role, text_ts) :
        text \in {JsUndefined, JsStr(""), JsStr(" "), JsStr(" \t\n"), JsStr("a"), JsStr(" b ")},
        is_final \in {JsUndefined, JsBool(TRUE), JsBool(FALSE)},
        role \in {JsUndefined, JsStr("assistant")},
        text_ts \in {JsUndefined, JsNum(7)}}

\* handleTenMessage(parsedMsg), called with a parsed record.
Dispatch(parsedMsg) ==
    /\ turnIdCounter < MaxTurns
    /\ LET handled == handleTenMessage(DispatcherState, parsedMsg) IN
       /\ SetDispatcher(handled.st)
       /\ event' = [Quiet("dispatch") EXCEPT
                       !.msg = parsedMsg,
                       !.outcome = IF handled.threw THEN "type" ELSE "returned"]
    /\ UNCHANGED <<messageCache, timers, isConnected, arrivals, history, monitor,
                   visualizer, client>>

NextDispatch ==
    \/ \E parsedMsg \in TenMessages : Dispatch(parsedMsg)
    \/ LeaveChannel

SpecDispatch == Init /\ [][NextDispatch]_vars

(***************************************************************************)
(* The volume monitor on its own: the publish events of the remote users,  *)
(* the interval's callback, joinChannel and leaveChannel.                  *)
(***************************************************************************)
transcript == <<messageCache, timers, dispatcher, arrivals, history>>

\* The last WindowSize samples of the current track, the new one included.
Hear(volume, after) ==
    LET all == Append(heard, [v |-> volume, before |-> isAgentSpeaking,
                              after |-> after, gap |-> disturbed,
                              had |-> Len(volumes)])
    IN  IF Len(all) > WindowSize THEN Tail(all) ELSE all

\* handleUserPublished(user, mediaType), user.audioTrack being track.
HandleUserPublished(track, mediaType) ==
    /\ isConnected
    /\ IF mediaType = "audio"
       THEN /\ remoteAudioTrack' = track
            /\ isAgentSpeaking' = TRUE
            /\ volumes' = MonitorEffect(remoteAudioTrack, isAgentSpeaking,
                                        track, TRUE, volumes)
            /\ heard' = IF track = remoteAudioTrack THEN heard ELSE <<>>
       ELSE UNCHANGED <<remoteAudioTrack, isAgentSpeaking, volumes, heard>>
    /\ disturbed' = TRUE
    /\ event' = [Quiet("published") EXCEPT !.data = mediaType,
                                            !.spoke = isAgentSpeaking]
    /\ UNCHANGED <<transcript, isConnected, samples, visualizer, client>>

\* handleUserUnpublished(user, mediaType)
HandleUserUnpublished(mediaType) ==
    /\ isConnected
    /\ IF mediaType = "audio"
       THEN /\ remoteAudioTrack' = NoTrack
            /\ isAgentSpeaking' = FALSE
            /\ volumes' = MonitorEffect(remoteAudioTrack, isAgentSpeaking,
                                        NoTrack, FALSE, volumes)
            /\ heard' = <<>>
       ELSE UNCHANGED <<remoteAudioTrack, isAgentSpeaking, volumes, heard>>
    /\ disturbed' = TRUE
    /\ event' = [Quiet("unpublished") EXCEPT !.data = mediaType,
                                              !.spoke = isAgentSpeaking]
    /\ UNCHANGED <<transcript, isConnected, samples, visualizer, client>>

\* handleUserLeft(user)
HandleUserLeft ==
    /\ isConnected
    /\ remoteAudioTrack' = NoTrack
    /\ isAgentSpeaking' = FALSE
    /\ volumes' = MonitorEffect(remoteAudioTrack, isAgentSpeaking,
                                NoTrack, FALSE, volumes)
    /\ heard' = <<>>
    /\ disturbed' = TRUE
    /\ event' = [Quiet("left") EXCEPT !.spoke = isAgentSpeaking]
    /\ UNCHANGED <<transcript, isConnected, samples, visualizer, client>>

\* The callback of the monitor's interval, getVolumeLevel() returning volume.
SampleVolume(volume) ==
    /\ remoteAudioTrack # NoTrack
    /\ samples < MaxSamples
    /\ samples' = samples + 1
    /\ LET pushed == Push(volumes, volume)
           speaking == Decide(pushed, isAgentSpeaking)
       IN  /\ isAgentSpeaking' = speaking
           /\ volumes' = MonitorEffect(remoteAudioTrack, isAgentSpeaking,
                                       remoteAudioTrack, speaking, pushed)
           /\ heard' = Hear(volume, speaking)
           /\ event' = [Quiet("sample") EXCEPT !.volume = volume, !.pushed = pushed,
                                               !.spoke = isAgentSpeaking]
    /\ disturbed' = FALSE
    /\ UNCHANGED <<transcript, isConnected, remoteAudioTrack, visualizer, client>>

NextMonitor ==
    \/ JoinChannel
    \/ LeaveChannel
    \/ \E track \in Tracks, mediaType \in {"audio", "video"} :
          HandleUserPublished(track, mediaType)
    \/ \E mediaType \in {"audio", "video"} : HandleUserUnpublished(mediaType)
    \/ HandleUserLeft
    \/ \E volume \in VolumeLevels : SampleVolume(volume)

SpecMonitor == Init /\ [][NextMonitor]_vars

(***************************************************************************)
(* The visualizer on its own: the hook mounted with its options, its       *)
(* effect started and stopped as track and enabled change, and the         *)
(* animation frames of updateData.                                         *)
(***************************************************************************)
rest == <<transcript, isConnected, monitor>>

\* useAudioVisualization(track, enabled, options), first render: the program
\* has no local track yet, and the effect takes its branch of no track.
UseAudioVisualization(opts) ==
    /\ ~mounted
    /\ mounted' = TRUE
    /\ options' = opts
    /\ frequencyData' = EmptyBars
    /\ currentLitCount' = Whole(0)
    /\ smoothedVolume' = Whole(0)
    /\ published' = Whole(0)
    /\ steady' = NoSteady
    /\ event' = Quiet("mount")
    /\ UNCHANGED <<rest, client, pipeline, lastUpdate, clock, frames>>

\* The requests and the contexts once the cleanup of the effect that ran last
\* has run, if that effect returned one.
AfterCleanup ==
    [requests |-> IF cleanup THEN CancelAnimationFrame(requests, animationIdRef)
                  ELSE requests,
     audioContexts |-> IF cleanup
                       THEN TearDown(audioContexts, sourceRef, audioContextRef)
                       ELSE audioContexts]

\* updateData at the time now, the frequency bytes adding up to sum.
RunUpdateData(sum, now, kind, st) ==
    LET updated == UpdateData(sum, options, smoothedVolume, currentLitCount) IN
    /\ frames' = frames + 1
    /\ smoothedVolume' = updated.smoothedVolume
    /\ currentLitCount' = updated.newLitCount
    /\ IF ShouldPublish(now, lastUpdate)
       THEN /\ frequencyData' = updated.visualizationData
            /\ lastUpdate' = now
            /\ published' = updated.newLitCount
       ELSE UNCHANGED <<frequencyData, lastUpdate, published>>
    /\ steady' = SteadyAfter(st, sum, updated, currentLitCount)
    /\ event' = [Quiet(kind) EXCEPT !.sum = sum, !.lit = currentLitCount,
                                    !.target = updated.targetLitCount]

\* track or enabled changes and the effect runs with no track or not enabled:
\* after the cleanup, the loop is cancelled, the source and the context are
\* let go, the bars are emptied and the refs of the smoothing are set to 0.
StopAnalysis(t, en) ==
    /\ mounted
    /\ <<t, en>> # <<localAudioTrack, enabled>>
    /\ t = NoTrack \/ ~en
    /\ localAudioTrack' = t
    /\ enabled' = en
    /\ cleanup' = FALSE
    /\ LET was == AfterCleanup IN
       /\ requests' = CancelAnimationFrame(was.requests, animationIdRef)
       /\ audioContexts' = TearDown(was.audioContexts, sourceRef, audioContextRef)
       /\ audioContextRef' =
             IF audioContextRef # 0 /\ was.audioContexts[audioContextRef].state # "closed"
             THEN 0 ELSE audioContextRef
    /\ animationIdRef' = 0
    /\ sourceRef' = 0
    /\ frequencyData' = EmptyBars
    /\ currentLitCount' = Whole(0)
    /\ smoothedVolume' = Whole(0)
    /\ published' = Whole(0)
    /\ steady' = NoSteady
    /\ event' = [Quiet("stop") EXCEPT !.lit = currentLitCount]
    /\ UNCHANGED <<rest, client, mounted, options, analyserRef, lastUpdate, clock, frames>>

\* track or enabled changes and the effect runs with a track and enabled:
\* after the cleanup, setupAudioAnalysis, which ends as outcome says; when it
\* runs to its end it calls updateData, the frequency bytes adding up to sum.
SetupAudioAnalysis(t, en, outcome, sum) ==
    /\ mounted
    /\ <<t, en>> # <<localAudioTrack, enabled>>
    /\ t # NoTrack /\ en
    /\ localAudioTrack' = t
    /\ enabled' = en
    /\ cleanup' = TRUE
    /\ clock' = clock
    /\ LET was == AfterCleanup
           context == Len(audioContexts) + 1
       IN  \/ /\ outcome = "throwsBefore"
              /\ requests' = was.requests
              /\ audioContexts' = was.audioContexts
              /\ steady' = NoSteady
              /\ event' = [Quiet("setup") EXCEPT !.threw = TRUE]
              /\ UNCHANGED <<audioContextRef, analyserRef, sourceRef, animationIdRef,
                             frequencyData, smoothedVolume, currentLitCount,
                             lastUpdate, frames, published>>
           \/ /\ outcome = "throwsAfter"
              /\ context <= MaxSetups
              /\ requests' = was.requests
              /\ audioContexts' = Append(was.audioContexts, NewAudioContext("none"))
              /\ steady' = NoSteady
              /\ event' = [Quiet("setup") EXCEPT !.threw = TRUE]
              /\ UNCHANGED <<audioContextRef, analyserRef, sourceRef, animationIdRef,
                             frequencyData, smoothedVolume, currentLitCount,
                             lastUpdate, frames, published>>
           \/ /\ outcome = "done"
              /\ context <= MaxSetups
              /\ frames < MaxFrames
              /\ audioContexts' = Append(was.audioContexts, NewAudioContext("connected"))
              /\ audioContextRef' = context
              /\ analyserRef' = context
              /\ sourceRef' = context
              /\ RunUpdateData(sum, clock, "setup", NoSteady)
              /\ animationIdRef' = frames + 1
              /\ requests' = was.requests \cup {[id |-> frames + 1, owner |-> context]}
    /\ UNCHANGED <<rest, client, mounted, options>>

\* A requested animation frame runs updateData, gap ms after the frame before
\* it, and requests the next.
AnimationFrame(sum, gap) ==
    /\ frames < MaxFrames
    /\ clock' = clock + gap
    /\ \E r \in requests :
          IF analyserRef = 0
          THEN /\ requests' = requests \ {r}
               /\ event' = Quiet("frame")
               /\ UNCHANGED <<animationIdRef, frequencyData, smoothedVolume,
                              currentLitCount, lastUpdate, frames, published, steady>>
          ELSE /\ RunUpdateData(sum, clock', "frame", steady)
               /\ animationIdRef' = frames + 1
               /\ requests' = (requests \ {r}) \cup {[id |-> frames + 1, owner |-> r.owner]}
    /\ UNCHANGED <<rest, client, mounted, options, localAudioTrack, enabled, cleanup,
                   audioContexts, audioContextRef, analyserRef, sourceRef>>

\* The close of an audio context completes: its state reads "closed".
AudioContextClosed ==
    /\ \E context \in DOMAIN audioContexts :
          /\ audioContexts[context].state = "closing"
          /\ audioContexts' = [audioContexts EXCEPT ![context].state = "closed"]
    /\ event' = Quiet("closed")
    /\ UNCHANGED <<rest, client, mounted, options, localAudioTrack, enabled, cleanup,
                   audioContextRef, analyserRef, sourceRef, animationIdRef, requests,
                   frequencyData, smoothedVolume, currentLitCount, lastUpdate, clock,
                   frames, published, steady>>

NextVisualizer ==
    \/ \E opts \in Options : UseAudioVisualization(opts)
    \/ StopAnalysis(NoTrack, FALSE)
    \/ \E sum \in ByteSums : SetupAudioAnalysis("track1", TRUE, "done", sum)
    \/ \E sum \in ByteSums, gap \in FrameGaps : AnimationFrame(sum, gap)

SpecVisualizer == Init /\ [][NextVisualizer]_vars

(***************************************************************************)
(* The life of the visualizer's pipeline: under one set of options, track  *)
(* and enabled change in every way, setupAudioAnalysis ends in every way,  *)
(* and the frames hear silence or every byte at its greatest.              *)
(***************************************************************************)
PipelineOptions ==
    [threshold |-> Whole(0), volumeDecay |-> Rat(1, 2), attackRate |-> Whole(1)]

PipelineSums == {0, 32640}

NextPipeline ==
    \/ UseAudioVisualization(PipelineOptions)
    \/ \E t \in Tracks \cup {NoTrack}, en \in BOOLEAN : StopAnalysis(t, en)
    \/ \E t \in Tracks, en \in BOOLEAN, outcome \in SetupOutcomes, sum \in PipelineSums :
          SetupAudioAnalysis(t, en, outcome, sum)
    \/ \E sum \in PipelineSums, gap \in FrameGaps : AnimationFrame(sum, gap)
    \/ AudioContextClosed

SpecPipeline == Init /\ [][NextPipeline]_vars

(***************************************************************************)
(* The claims.                                                             *)
(***************************************************************************)
\* The last step was an arrival that completed an entry.
Completed == event.kind = "chunk" /\ event.completed

\* chunks carry the part indices 0 .. Len(chunks) - 1, each once.
IsCompleteSet(chunks) ==
    /\ \A i \in 1..Len(chunks) : chunks[i].part_index.t = "number"
    /\ \A k \in 0..(Len(chunks) - 1) :
          Cardinality({i \in 1..Len(chunks) : chunks[i].part_index.n = k}) = 1

RECURSIVE AscendingJoin(_, _)
\* The contents of a complete set from part index k on, in part index order.
AscendingJoin(chunks, k) ==
    IF k >= Len(chunks) THEN ""
    ELSE LET i == CHOOSE j \in 1..Len(chunks) : chunks[j].part_index.n = k
         IN  chunks[i].content \o AscendingJoin(chunks, k + 1)

\* C1: whenever an entry completes with a complete set of chunks (part indices
\* 0 .. total_parts - 1, each once), in whatever order they arrived, the payload
\* that is decoded is their contents joined in ascending part index order.
C1_OrderIndependence ==
    (Completed /\ IsCompleteSet(event.collected))
        => event.payload = AscendingJoin(event.collected, 0)

\* A three-part set completed whose parts arrived as 1, 0, 2 or 2, 0, 1 or 2, 1, 0.
C1_Witness ==
    /\ Completed /\ IsCompleteSet(event.collected)
    /\ Len(event.collected) = 3
    /\ event.collected[1].part_index.n > event.collected[2].part_index.n
    /\ event.outcome = "returned"

\* C2 (as claimed): an entry is reassembled only when a chunk of every part
\* index 0 .. total_parts - 1 is among the chunks it collected.
C2_EveryPartArrived ==
    Completed =>
        \A k \in 0..(event.chunk.total_parts.n - 1) :
            \E i \in 1..Len(event.collected) :
                NumStrictEq(event.collected[i].part_index, JsNum(k))

\* A step in which a datagram arrives.
Arrival == arrivals' = arrivals + 1

\* The datagram carries the sentinel "???" for its total.
SaysUnknown(data) == Field(Split(data), 3) = "???"

\* chunks have pairwise different numeric part indices and declare one total.
UniformSet(chunks) ==
    /\ \A i \in 1..Len(chunks) :
          /\ chunks[i].part_index.t = "number"
          /\ chunks[i].total_parts = chunks[1].total_parts
    /\ chunks[1].total_parts.t = "number"
    /\ \A i, j \in 1..Len(chunks) :
          i # j => chunks[i].part_index.n # chunks[j].part_index.n

\* The reassemblies that used an arrival of chunks.
AttemptsWith(chunks) == {i \in DOMAIN attempts : attempts[i] \cap Seqs(chunks) # {}}

\* C3: an entry whose chunks have distinct part indices and one declared total
\* is decoded and dispatched in the step in which its last chunk arrives, not
\* before, and once: no arrival is part of two reassemblies.
C3_ExactlyOnce ==
    /\ \A i, j \in DOMAIN attempts : i # j => attempts[i] \cap attempts[j] = {}
    /\ (event.kind = "chunk" /\ ~SaysUnknown(event.data) /\ UniformSet(event.collected))
          => IF Len(event.collected) = event.collected[1].total_parts.n
             THEN /\ event.completed
                  /\ AttemptsWith(event.collected) = {Len(attempts)}
                  /\ attempts[Len(attempts)] = Seqs(event.collected)
             ELSE /\ ~event.completed
                  /\ AttemptsWith(event.collected) = {}

\* The last of three parts has arrived, the parts in the order 0, 2, 1, and
\* this is the one reassembly there was.
C3_Witness ==
    /\ Completed /\ UniformSet(event.collected)
    /\ Len(event.collected) = 3
    /\ event.chunk.part_index = JsNum(1)
    /\ event.collected[1].part_index = JsNum(0)
    /\ attempts = <<Seqs(event.collected)>>

\* No chunk of unknown total is held in the cache or was reassembled.
NoUnknownHeld ==
    /\ \A id \in DOMAIN messageCache : \A i \in 1..Len(messageCache[id]) :
          ~NumStrictEq(messageCache[id][i].total_parts, JsNum(-1))
    /\ \A i \in 1..Len(event.collected) :
          ~NumStrictEq(event.collected[i].total_parts, JsNum(-1))

\* C4: the arrival of a chunk whose total is "???" changes neither the cache
\* nor the timers nor the transcript and starts no reassembly; no such chunk
\* is ever held or reassembled.
C4_UnknownLengthDrop ==
    [][ /\ (Arrival /\ SaysUnknown(event'.data))
            => UNCHANGED <<messageCache, timers, dispatcher, attempts>>
        /\ NoUnknownHeld' ]_vars

\* A chunk of unknown total arrived for a message_id that has a pending entry.
C4_Witness ==
    /\ event.kind = "chunk" /\ SaysUnknown(event.data)
    /\ event.message_id \in DOMAIN messageCache
    /\ timers # <<>>

\* The arrivals that were part of some reassembly.
Reassembled == UNION {attempts[i] : i \in DOMAIN attempts}

\* C5 (as claimed): when the eviction timer of a pending entry fires, the entry
\* is removed from the cache, and no chunk a timer removed is ever reassembled.
C5_TimeoutEviction ==
    /\ (event.kind = "timer" /\ event.own) => event.message_id \notin DOMAIN messageCache
    /\ evicted \cap Reassembled = {}

\* C6: the first chunk (of known total) that arrives for a message_id after its
\* entry was evicted creates a new entry that holds this chunk alone, and sets
\* a timer of its own with the full delay.
C6_FreshEntryAfterEviction ==
    (event.kind = "chunk" /\ event.was = "evicted" /\ ~SaysUnknown(event.data))
        => /\ event.created
           /\ event.collected = <<event.chunk>>
           /\ Seqs(event.collected) \cap evicted = {}
           /\ timers # <<>>
           /\ timers[Len(timers)].message_id = event.message_id
           /\ timers[Len(timers)].first = event.chunk.seq
           /\ timers[Len(timers)].remaining = EvictionDelay
           /\ ~event.completed =>
                 /\ event.message_id \in DOMAIN messageCache
                 /\ messageCache[event.message_id] = <<event.chunk>>

\* A chunk arrived for an evicted message_id and is pending.
C6_Witness ==
    /\ event.kind = "chunk" /\ event.was = "evicted"
    /\ event.created /\ ~event.completed
    /\ evicted # {}

\* The message_id's last entry was evicted or completed.
IsGone(message_id) == FateOf(message_id) \in {"evicted", "completed"}

\* C7 (as claimed): the arrival of a chunk for a message_id whose entry was
\* evicted or completed changes neither the cache nor the transcript.
C7_LateChunkIgnored ==
    [][ (Arrival /\ IsGone(event'.message_id))
            => UNCHANGED <<messageCache, dispatcher>> ]_vars

\* C7 (amended): such a chunk is handled like the first chunk of an unseen
\* message_id.  With total "???" it is dropped.  Otherwise it sets a timer and
\* makes an entry of this chunk alone: the entry stays pending and the
\* transcript is unchanged, unless the chunk declares a total of 1, and then
\* it is reassembled at once and no entry is left.
C7_LateChunkStartsAnew ==
    [][ (Arrival /\ IsGone(event'.message_id)) =>
          IF SaysUnknown(event'.data)
          THEN UNCHANGED <<messageCache, timers, dispatcher>>
          ELSE /\ event'.collected = <<event'.chunk>>
               /\ Len(timers') = Len(timers) + 1
               /\ timers'[Len(timers')].message_id = event'.message_id
               /\ IF event'.chunk.total_parts = JsNum(1)
                  THEN /\ event'.completed
                       /\ messageCache' = messageCache
                  ELSE /\ ~event'.completed
                       /\ DOMAIN messageCache' = DOMAIN messageCache \cup {event'.message_id}
                       /\ messageCache'[event'.message_id] = <<event'.chunk>>
                       /\ \A id \in DOMAIN messageCache : messageCache'[id] = messageCache[id]
                       /\ UNCHANGED dispatcher ]_vars

\* A chunk arrived for a completed message_id and is pending in a new entry.
C7_Witness ==
    /\ event.kind = "chunk" /\ event.was = "completed"
    /\ event.message_id \in DOMAIN messageCache
    /\ messageCache[event.message_id] = <<event.chunk>>

\* The inner try caught an exception.
Failed(e) == e.completed /\ e.outcome \in {"atob", "syntax", "type"}

\* C8: when the reassembly of a completed entry fails (atob, JSON.parse or
\* handleTenMessage throws), the transcript and the turn counter are unchanged
\* and the entry is removed all the same.
C8_FailureDrops ==
    [][ (Arrival /\ Failed(event'))
            => /\ UNCHANGED dispatcher
               /\ event'.message_id \notin DOMAIN messageCache' ]_vars

\* A reassembly failed while the in-progress slot held a message.
C8_Witness ==
    /\ event.kind = "chunk" /\ Failed(event)
    /\ currentInProgressMessage # <<>>

\* The timers of a message_id, oldest first.
TimersOf(queue, message_id) ==
    SelectSeq(queue, LAMBDA timer : timer.message_id = message_id)

\* C9: an arrival for a message_id (whether it is stored, completes the entry
\* or is dropped) and the callback of a timer of a message_id leave the entry
\* and the timers of every other message_id as they are.
C9_PerMessageIndependence ==
    [][ (Arrival \/ event'.kind = "timer") =>
          \A id \in (DOMAIN messageCache \cup DOMAIN messageCache'
                        \cup {timers[i].message_id : i \in 1..Len(timers)})
                    \ {event'.message_id} :
             /\ id \in DOMAIN messageCache <=> id \in DOMAIN messageCache'
             /\ id \in DOMAIN messageCache => messageCache'[id] = messageCache[id]
             /\ TimersOf(timers', id) = TimersOf(timers, id) ]_vars

\* A timer has evicted the entry of one message_id while another is pending.
C9_Witness ==
    /\ event.kind = "timer" /\ event.discarded /\ event.removed # <<>>
    /\ \E id \in DOMAIN messageCache : id # event.message_id

\* The text is missing, empty or made of white space only.
IsBlank(text) ==
    \/ text.t = "undefined"
    \/ text.t = "string" /\ \A i \in 1..Len(text.s) : CharAt(text.s, i) \in WhiteSpace

\* C10: handleTenMessage on a record whose text is missing, empty or white
\* space leaves the finalized list, the in-progress slot and the turn counter
\* unchanged, final or not.
C10_EmptyTextNoOp ==
    [][ (event'.kind = "dispatch" /\ IsBlank(event'.msg.text))
            => UNCHANGED dispatcher ]_vars

\* A final record of white space was dispatched while the list and the slot
\* held messages.
C10_Witness ==
    /\ event.kind = "dispatch"
    /\ event.msg.text = JsStr(" \t\n") /\ Truthy(event.msg.is_final)
    /\ messageList # <<>>
    /\ currentInProgressMessage # <<>>

\* The participant of a record: 0 for the agent, 1 for everyone else.
Participant(parsedMsg) == IF parsedMsg.role = JsStr("assistant") THEN 0 ELSE 1

\* e tells of a dispatch of a record with text that is not blank.
DispatchOfText(e) == e.kind = "dispatch" /\ ~IsBlank(e.msg.text)

\* C11: handleTenMessage on a record with non-empty text and is_final = true
\* appends one message to the end of the finalized list, with the record's
\* text, participant and timestamp, and leaves the in-progress slot empty.
C11_FinalAppends ==
    [][ (DispatchOfText(event') /\ event'.msg.is_final = JsBool(TRUE)) =>
          /\ Len(messageList') = Len(messageList) + 1
          /\ SubSeq(messageList', 1, Len(messageList)) = messageList
          /\ messageList'[Len(messageList')].text = event'.msg.text.s
          /\ messageList'[Len(messageList')].uid = Participant(event'.msg)
          /\ messageList'[Len(messageList')].timestamp = event'.msg.text_ts
          /\ messageList'[Len(messageList')].status = 1
          /\ currentInProgressMessage' = <<>> ]_vars

\* The agent's final record was dispatched while the slot held turn 1 (the
\* list holds turns 0 and 2, so turn 1 went to the slot and stayed there).
C11_Witness ==
    /\ DispatchOfText(event) /\ event.msg.is_final = JsBool(TRUE)
    /\ event.msg.role = JsStr("assistant")
    /\ Len(messageList) = 2
    /\ messageList[1].turn_id = 0 /\ messageList[2].turn_id = 2
    /\ currentInProgressMessage = <<>>

\* C12: handleTenMessage on a record with non-empty text and is_final false
\* (or absent) puts into the in-progress slot the message of this record
\* alone, whatever the slot held, and leaves the finalized list unchanged.
C12_PartialReplacesSlot ==
    [][ (DispatchOfText(event') /\ ~Truthy(event'.msg.is_final)) =>
          /\ currentInProgressMessage' =
                <<[turn_id |-> turnIdCounter, uid |-> Participant(event'.msg),
                   text |-> event'.msg.text.s, status |-> 0,
                   timestamp |-> event'.msg.text_ts]>>
          /\ messageList' = messageList ]_vars

\* A partial record of the user replaced the partial record of turn 1 in the
\* slot (the list holds turn 0 and the slot now holds turn 2).
C12_Witness ==
    /\ DispatchOfText(event) /\ event.msg.is_final = JsBool(FALSE)
    /\ event.msg.text = JsStr(" b ")
    /\ Len(messageList) = 1 /\ messageList[1].turn_id = 0
    /\ currentInProgressMessage # <<>>
    /\ currentInProgressMessage[1].turn_id = 2
    /\ currentInProgressMessage[1].uid = 1

\* C13: the turn ids of the finalized list are strictly increasing in list
\* order.
C13_TurnIdsIncrease ==
    \A i, j \in 1..Len(messageList) :
        i < j => messageList[i].turn_id < messageList[j].turn_id

\* Two finalized messages whose turn ids are not consecutive.
C13_Witness ==
    /\ Len(messageList) = 2
    /\ messageList[2].turn_id > messageList[1].turn_id + 1

\* a is b or the beginning of b.
IsPrefix(a, b) == Len(a) <= Len(b) /\ SubSeq(b, 1, Len(a)) = a

\* C14: a chunk arrival (with the dispatch it may lead to), a timer callback
\* and the passing of time leave the finalized list as it is or add to its
\* end: the list before the step is a prefix of the list after it.
C14_ListOnlyGrows ==
    [][ (event'.kind \in {"chunk", "timer", "tick"})
            => IsPrefix(messageList, messageList') ]_vars

\* An arrival added a second message to the finalized list.
C14_Witness ==
    /\ Completed /\ event.outcome = "returned"
    /\ Len(messageList) = 2
    /\ messageList[2].turn_id = turnIdCounter - 1

\* A step in which the monitor's interval takes a sample.
Sampling == samples' = samples + 1

\* The values of the samples of h, in order.
Values(h) == [i \in 1..Len(h) |-> h[i].v]

\* What a sample may do to the state, by the window it was pushed to.
SampleDecides ==
    (Sampling /\ isAgentSpeaking' # isAgentSpeaking) =>
        /\ Len(event'.pushed) >= 2
        /\ ~isAgentSpeaking' => \A i \in 1..Len(event'.pushed) : event'.pushed[i] = 0
        /\ isAgentSpeaking' => \E i \in 1..Len(event'.pushed) : event'.pushed[i] # 0

C16_SingleZeroHeld ==
    [][ /\ (Sampling /\ isAgentSpeaking /\ ~isAgentSpeaking') =>
              /\ Len(heard') >= 2
              /\ heard'[Len(heard')].v = 0
              /\ heard'[Len(heard') - 1].v = 0
        /\ (/\ Len(heard') = 3
            /\ heard'[1].v # 0 /\ heard'[2].v = 0 /\ heard'[3].v # 0
            /\ heard'[2].before)
              => /\ heard'[2].after
                 /\ heard'[3].before => heard'[3].after ]_vars

\* A zero was sampled between two sounds, with no other event in between, and
\* the state was speaking throughout.
C16_Witness ==
    /\ event.kind = "sample" /\ Len(heard) = 3
    /\ heard[1].v # 0 /\ heard[2].v = 0 /\ heard[3].v # 0
    /\ heard[1].after /\ heard[2].before /\ heard[2].after
    /\ heard[3].before /\ heard[3].after
    /\ ~heard[2].gap /\ ~heard[3].gap

\* C17 (as claimed): of three samples in a row, a sound taken while listening
\* between two zeros does not set the state to speaking: neither at that
\* sample nor at the zero after it.
C17_SingleNonzeroHeld ==
    (/\ Len(heard) = 3
     /\ heard[1].v = 0 /\ heard[2].v # 0 /\ heard[3].v = 0
     /\ ~heard[2].before)
        => /\ ~heard[2].after
           /\ ~heard[3].before => ~heard[3].after

\* C17 (amended): a sound sampled while listening, also one between two
\* zeros, sets the state to speaking: at that sample when the window then
\* holds at least 2 samples, and if not, at the next sample, whatever that
\* sample is, when no other event comes between the two.
C17_NonzeroTurnsSpeaking ==
    [][ /\ (Sampling /\ ~isAgentSpeaking /\ event'.volume # 0)
              => (isAgentSpeaking' <=> Len(event'.pushed) >= 2)
        /\ \A k \in 1..(Len(heard') - 1) :
              (/\ heard'[k].v # 0 /\ ~heard'[k].before /\ ~heard'[k].after
               /\ ~heard'[k + 1].gap)
                  => heard'[k + 1].after ]_vars

\* A sound between two zeros, all three sampled while listening with no
\* other event in between: the zero after the sound set the state to speaking.
C17_Witness ==
    /\ event.kind = "sample" /\ Len(heard) = 3
    /\ heard[1].v = 0 /\ heard[2].v # 0 /\ heard[3].v = 0
    /\ ~heard[2].before /\ ~heard[2].after
    /\ ~heard[3].before /\ heard[3].after
    /\ ~heard[2].gap /\ ~heard[3].gap

\* Two samples in a row of one track, with no other event between them.
InARow(k) == k \in 1..(Len(heard) - 1) /\ ~heard[k + 1].gap

\* Two samples in a row taken while listening, one of them a sound, set the
\* state to speaking at the second at the latest.
SoundRunTurnsSpeaking ==
    \A k \in 1..(Len(heard) - 1) :
        (/\ InARow(k) /\ ~heard[k].before /\ ~heard[k + 1].before
         /\ (heard[k].v # 0 \/ heard[k + 1].v # 0))
            => heard[k + 1].after

\* C18 (as claimed): two zeros in a row sampled while speaking set the state
\* to listening at the second at the latest, whatever was sampled before
\* them; two samples in a row sampled while listening, one of them a sound,
\* set the state to speaking at the second at the latest.
C18_TwoSampleRunDecides ==
    /\ \A k \in 1..(Len(heard) - 1) :
          (/\ InARow(k) /\ heard[k].before /\ heard[k + 1].before
           /\ heard[k].v = 0 /\ heard[k + 1].v = 0)
              => ~heard[k + 1].after
    /\ SoundRunTurnsSpeaking

\* C18 (amended): zeros in a row sampled while speaking set the state to
\* listening at the first of them after which the window holds at least 2
\* samples, all zero: at the second zero at the latest when the window was
\* empty before the first, and at the third at the latest otherwise.  The
\* second half is as claimed.
C18_WindowRunDecides ==
    /\ \A k \in 1..(Len(heard) - 1) :
          (/\ InARow(k) /\ heard[k].before /\ heard[k + 1].before
           /\ heard[k].v = 0 /\ heard[k + 1].v = 0 /\ heard[k].had = 0)
              => ~heard[k + 1].after
    /\ (/\ Len(heard) = 3 /\ InARow(1) /\ InARow(2)
        /\ \A k \in 1..3 : heard[k].v = 0 /\ heard[k].before)
          => ~heard[3].after
    /\ SoundRunTurnsSpeaking

\* Three zeros in a row after a sound, sampled while speaking: the state was
\* held at the second zero and set to listening at the third.
C18_Witness ==
    /\ event.kind = "sample" /\ Len(heard) = 3
    /\ InARow(1) /\ InARow(2)
    /\ \A k \in 1..3 : heard[k].v = 0 /\ heard[k].before
    /\ heard[1].had = 1
    /\ heard[2].after /\ ~heard[3].after

\* C19 (as claimed): after a sample is taken, the window holds the last
\* min(n, 3) samples of the current track, n being the number of samples
\* taken since the track was set, and never more than 3.
C19_WindowIsRecent ==
    /\ event.kind = "sample" => volumes = Values(heard)
    /\ Len(volumes) <= 3

\* C20: whatever the frequency bytes of the frames and whatever the options
\* (threshold in [0, 1), volumeDecay and attackRate in [0, 1]), the smoothed
\* volume is within [0, 1] and the lit count carried from frame to frame is
\* within [0, barCount].
C20_VolumeAndBarsInRange ==
    /\ RatLeq(Whole(0), smoothedVolume) /\ RatLeq(smoothedVolume, Whole(1))
    /\ RatLeq(Whole(0), currentLitCount) /\ RatLeq(currentLitCount, Whole(barCount))

\* Both are at their upper limits after two frames, under a threshold that
\* rescales the volume: the volume is 1 and every bar is lit.
C20_Witness ==
    /\ frames >= 2
    /\ options.threshold # Whole(0) /\ options.volumeDecay # Whole(1)
    /\ smoothedVolume = Whole(1)
    /\ currentLitCount = Whole(barCount)

\* A step that runs updateData: an animation frame, or the call that ends
\* setupAudioAnalysis.
Ticking == frames' = frames + 1

\* C21: a run of updateData whose target lit count exceeds the lit count it
\* finds (attack) leaves the lit count no smaller and at most barCount; any
\* other run (decay) leaves it no greater and at least 0.
C21_BarCountMonotone ==
    [][Ticking =>
          IF RatLess(currentLitCount, RatMul(smoothedVolume', Whole(barCount)))
          THEN /\ RatLeq(currentLitCount, currentLitCount')
               /\ RatLeq(currentLitCount', Whole(barCount))
          ELSE /\ RatLeq(currentLitCount', currentLitCount)
               /\ RatLeq(Whole(0), currentLitCount')]_vars

\* A frame of an attack under way: the lit count was above 0 and below its
\* target, and the frame has moved it up, part of the way.
C21_Witness ==
    /\ event.kind = "frame"
    /\ RatLess(Whole(0), event.lit)
    /\ RatLess(event.lit, currentLitCount)
    /\ RatLess(currentLitCount, event.target)

\* C22 (as claimed): under frequency bytes that are the same on every run of
\* updateData the rounded lit count stops changing.  updateData is a function
\* of the bytes, the options and the two refs of the smoothing, so it denies
\* that such runs bring the two refs back to what they were after the first of
\* them with the rounded lit count changed on the way: from there the same
\* changes repeat for as long as the bytes stay the same.
C22_DisplaySettles ==
    ~(/\ steady.on
      /\ steady.moved
      /\ smoothedVolume = steady.smoothedVolume
      /\ currentLitCount = steady.currentLitCount)

\* The normalized energy of frequency bytes adding up to sum is below the
\* threshold.
BelowThreshold(sum) == RatLess(RawVolume(sum), options.threshold)

\* The step before ran updateData.
Ticked == event.kind \in {"frame", "setup"} /\ ~event.threw

\* C23 (as claimed): under a volumeDecay below 1, a run of updateData under
\* energy below the threshold, coming after a run under energy below the
\* threshold, does not increase the rounded lit count.
C23_NoiseFloor ==
    [][(/\ Ticking /\ Ticked
        /\ RatLess(options.volumeDecay, Whole(1))
        /\ BelowThreshold(event.sum) /\ BelowThreshold(event'.sum))
          => MathRound(currentLitCount') <= MathRound(currentLitCount)]_vars

\* C24: a run of updateData sets the bars only when updateInterval ms or more
\* have passed since the run that set them last, and lastUpdateRef then holds
\* its time; no other step touches lastUpdateRef.  Whether or not it sets the
\* bars, the run sets the smoothed volume and the lit count to what updateData
\* computes from the frequency bytes.
C24_PublishRateCap ==
    [][IF Ticking
       THEN /\ (lastUpdate' # lastUpdate \/ frequencyData' # frequencyData)
                  => (clock' - lastUpdate >= updateInterval /\ lastUpdate' = clock')
            /\ LET updated == UpdateData(event'.sum, options, smoothedVolume,
                                         currentLitCount)
               IN  /\ smoothedVolume' = updated.smoothedVolume
                   /\ currentLitCount' = updated.newLitCount
       ELSE lastUpdate' = lastUpdate]_vars

\* The third run of updateData sets the bars exactly updateInterval ms after
\* the first did, the second (16 ms after the first) having set none.
C24_Witness ==
    /\ event.kind = "frame"
    /\ frames = 3
    /\ lastUpdate = clock
    /\ clock = Epoch + updateInterval

\* C25: the bars the hook returns are barCount entries, each 0 or 1, the 1s
\* first: counting from 0, entry i is 1 exactly when i is less than the
\* integer nearest (halves going up) to the lit count of the run of updateData
\* that set the bars, which is 0 for the bars of the first render and of the
\* effect run with no track or not enabled.
C25_BarsArePrefix ==
    /\ Len(frequencyData) = barCount
    /\ \E k \in 0..barCount :
          /\ (2 * k - 1) * published.d <= 2 * published.n
          /\ 2 * published.n < (2 * k + 1) * published.d
          /\ \A i \in 0..(barCount - 1) :
                frequencyData[i + 1] = IF i < k THEN 1 ELSE 0

\* A frame has set the bars from a lit count that is no whole number: some
\* bars are lit and some are not.
C25_Witness ==
    /\ event.kind = "frame"
    /\ lastUpdate = clock
    /\ published = currentLitCount
    /\ published.d # 1
    /\ frequencyData[1] = 1
    /\ frequencyData[barCount] = 0

\* C26 (as claimed): when leaveChannel has run, no eviction timer is pending:
\* those set during the session are cancelled, so that none of them fires
\* afterwards.
C26_TimersCancelledOnLeave == event.kind = "leave" => timers = <<>>

\* C27 (as claimed): while no session is joined (before the first join, and
\* from leaveChannel to the next join) no sample of the volume is taken and
\* the state is listening after every step.
C27_SamplingStopsOnLeave ==
    [][~isConnected => (~Sampling /\ ~isAgentSpeaking')]_vars

\* The audio contexts that are open: made, and close() not called on them.
Open == {context \in DOMAIN audioContexts : audioContexts[context].state = "running"}

\* C28 (as claimed): at no time are two pipelines live: at most one audio
\* context is open, every other one having been closed before it was made,
\* and at most one animation frame is requested, by the loop of the open one.
C28_OnePipelineLive ==
    /\ Cardinality(Open) <= 1
    /\ Cardinality(requests) <= 1
    /\ \A r \in requests : r.owner \in Open

\* The effect that ran last called setupAudioAnalysis and it threw: it has
\* returned its cleanup and no animation frame is requested.
SetupFailed == cleanup /\ requests = {}

\* C29 (as claimed): while the effect that ran last is one whose
\* setupAudioAnalysis threw, the bars the hook returns are all 0.
C29_SetupFailureShowsZeros == SetupFailed => frequencyData = EmptyBars

\* C30 (as claimed): the callback of an eviction timer removes no entry but
\* the one created by the arrival that set the timer.
C30_EvictedByOwnTimer ==
    (event.kind = "timer" /\ event.removed # <<>>) => event.own

\* C31 (as claimed): no entry of the cache is older than the delay of its
\* timer: the timer set by the arrival that created the entry is still
\* pending.
C31_NoEntryOutlivesItsTimer ==
    \A message_id \in DOMAIN messageCache :
        \E i \in DOMAIN timers : timers[i].first = messageCache[message_id][1].seq

\* C32: a dispatch of a record with text that is not blank, final or not,
\* gives the message it makes the turn id the counter held and adds 1 to the
\* counter; every other step (leaveChannel too) leaves the counter.  So the
\* turn ids of the list and of the slot are all below the counter, and no
\* turn id is given twice.
C32_TurnCounterAdvances ==
    [][/\ turnIdCounter' = IF DispatchOfText(event') THEN turnIdCounter + 1
                           ELSE turnIdCounter
       /\ DispatchOfText(event') =>
             LET made == IF Truthy(event'.msg.is_final)
                         THEN messageList'[Len(messageList')]
                         ELSE currentInProgressMessage'[1]
             IN  made.turn_id = turnIdCounter
       /\ \A i \in 1..Len(messageList') : messageList'[i].turn_id < turnIdCounter'
       /\ \A i \in 1..Len(currentInProgressMessage') :
             currentInProgressMessage'[i].turn_id < turnIdCounter']_vars

\* leaveChannel has emptied the list and the slot and the counter is where
\* the dispatches before it left it; the next message takes turn id 2.
C32_Witness ==
    /\ event.kind = "leave"
    /\ messageList = <<>> /\ currentInProgressMessage = <<>>
    /\ turnIdCounter = 2

(***************************************************************************)
(* The reassembler fed two final messages with timestamps, their chunks in *)
(* every order.                                                            *)
(***************************************************************************)
NextOrder ==
    \/ JoinChannel
    \/ LeaveChannel
    \/ \E data \in OrderDatagrams : HandleStreamMessage(data)
    \/ EvictionTimer
    \/ Tick

SpecOrder == Init /\ [][NextOrder]_vars

\* e tells of an arrival that completed an entry whose record, final and with
\* text that is not blank, handleTenMessage took.
CompletedFinal(e) ==
    /\ e.kind = "chunk" /\ e.completed /\ e.outcome = "returned"
    /\ ~IsBlank(e.msg.text) /\ Truthy(e.msg.is_final)

\* C33: the arrival that completes the reassembly of a final message puts the
\* message, with its text and its timestamp, at the end of the finalized list
\* then and there, behind every message completed before; no other arrival
\* changes the list.  So the list is in the order of completion, whichever
\* message's first chunk came first and whatever the timestamps.
C33_ListInCompletionOrder ==
    [][Arrival =>
          IF CompletedFinal(event')
          THEN /\ Len(messageList') = Len(messageList) + 1
               /\ SubSeq(messageList', 1, Len(messageList)) = messageList
               /\ messageList'[Len(messageList')].text = event'.msg.text.s
               /\ messageList'[Len(messageList')].timestamp = event'.msg.text_ts
          ELSE messageList' = messageList]_vars

\* The second part of o1 arrived third and completed o1, whose first part had
\* arrived first: o1, of timestamp 5, stands in the list behind o2, of
\* timestamp 9, which arrived second.
C33_Witness ==
    /\ CompletedFinal(event)
    /\ arrivals = 3
    /\ event.collected[1].seq = 1
    /\ Len(messageList) = 2
    /\ messageList[1].text = "d" /\ messageList[1].timestamp = JsNum(9)
    /\ messageList[2].text = "c" /\ messageList[2].timestamp = JsNum(5)


\* C34: a step that changes isAgentSpeaking, a sample's or a publish event's,
\* leaves the window of samples empty; the window grows only by a sample, one at
\* a time; and a sample changes the state only when the window held a sample
\* already.  So from any change of the state two samples are taken, the second
\* of them at the earliest being the one that changes the state again.
C34_ChangeEmptiesWindow ==
    [][/\ isAgentSpeaking' # isAgentSpeaking => volumes' = <<>>
       /\ Len(volumes') > Len(volumes) =>
             Sampling /\ Len(volumes') = Len(volumes) + 1
       /\ Sampling /\ isAgentSpeaking' # isAgentSpeaking =>
             /\ Len(volumes) >= 1
             /\ Len(event'.pushed) >= MinSamples]_vars

\* A sample has just changed the state a publish event had set two samples
\* before: the window it decided on held those two samples, and is empty now.
C34_Witness ==
    /\ event.kind = "sample"
    /\ event.spoke /\ ~isAgentSpeaking
    /\ event.pushed = <<0, 0>>
    /\ volumes = <<>>
    /\ samples = 2


\* The effect that ran last took its branch of no track or not enabled.
Disabled == localAudioTrack = NoTrack \/ ~enabled

\* C35: while the hook is mounted with no track or not enabled no animation
\* frame is requested, the published bars are all 0 and the smoothed volume and
\* the lit count are 0; and the pipeline set up next starts its attack from a
\* lit count of 0.
C35_DisabledShowsZeros ==
    [][/\ mounted' /\ Disabled' =>
             /\ requests' = {}
             /\ frequencyData' = EmptyBars
             /\ smoothedVolume' = Whole(0)
             /\ currentLitCount' = Whole(0)
       /\ mounted /\ Disabled /\ event'.kind = "setup" /\ ~event'.threw =>
             /\ event'.lit = Whole(0)
             /\ currentLitCount' =
                   UpdateData(event'.sum, options, Whole(0), Whole(0)).newLitCount]_vars

\* The hook has just been disabled while bars were lit and its loop was
\* running: the bars are all 0 and no frame is requested.
C35_Witness ==
    /\ event.kind = "stop"
    /\ event.lit # Whole(0)
    /\ Disabled
    /\ frames >= 2
    /\ frequencyData = EmptyBars
    /\ requests = {}

(***************************************************************************)
(* The component, VideoAvatarClient (src/components/VideoAvatarClient.tsx),*)
(* with its agent hook, useTenAgent (src/unnamed/part_002): handleStart    *)
(* and handleStop as the page lets them be called, each await a step       *)
(* apart, toggleMute, the unmount and the interval of the ping.            *)
(***************************************************************************)
\* At most this many channel names are generated in one behaviour.
MaxStarts == 2
\* At most this many calls of handleStop await a response at a time.
MaxStops == 2

\* What a request to the agent service may come to.
Results ==
    { [threw |-> TRUE, code |-> "", data |-> FALSE],
      [threw |-> FALSE, code |-> "0", data |-> TRUE],
      [threw |-> FALSE, code |-> "0", data |-> FALSE],
      [threw |-> FALSE, code |-> "10001", data |-> FALSE] }

\* The message of an Error a request throws.
FetchError == "Failed to fetch"

\* A test of the token's response by its code alone.
TokenFailedByCode(tokenResult) == tokenResult.threw \/ tokenResult.code # "0"

\* await apiGenAgoraData(...) threw, or
\* tokenResult.code !== "0" || !tokenResult.data
TokenFailed(tokenResult) ==
    tokenResult.threw \/ tokenResult.code # "0" \/ ~tokenResult.data

\* await apiStartService(...) threw, or startResult.code !== "0"
StartFailed(startResult) == startResult.threw \/ startResult.code # "0"

\* The message startAgent records for a failed request.
ErrorMessage(result, fallback) == IF result.threw THEN FetchError ELSE fallback

\* calls without its i-th.
Without(calls, i) == SubSeq(calls, 1, i - 1) \o SubSeq(calls, i + 1, Len(calls))

\* stopPing(): pingIntervalRef.current after it.
StopPing(interval) == 0

\* startPing(channel): pingIntervalRef.current after it, the interval before
\* it cleared.
StartPing(interval, channel) == channel

\* The Start button, shown while not connected and enabled while neither
\* isLoading nor isConnecting: handleStart awaits the tracks.
HandleStart ==
    /\ ~unmounted
    /\ ~isConnected
    /\ handleStart = "idle" /\ ~isConnecting
    /\ generated < MaxStarts
    /\ handleStart' = "tracks"
    /\ event' = Quiet("handleStart")
    /\ UNCHANGED <<rest, visualizer, session, agent, stopping, unmounted>>

\* createMicrophoneAndCameraTracks resolves, or throws and handleStart ends;
\* with the tracks handleStart calls startAgent, which records a new channel
\* and awaits the token.
TracksCreated(ok) ==
    /\ handleStart = "tracks"
    /\ IF ok
       THEN LET channel == generated + 1 IN
            /\ generated' = channel
            /\ isConnecting' = TRUE
            /\ error' = ""
            /\ channelRef' = channel
            /\ starting' = Append(starting, [channel |-> channel, awaits |-> "token"])
            /\ handleStart' = "agent"
            /\ event' = [Quiet("startAgent") EXCEPT !.channel = channel]
            /\ UNCHANGED <<connectionInfo, pingIntervalRef, running>>
       ELSE /\ handleStart' = "idle"
            /\ event' = [Quiet("tracks") EXCEPT !.threw = TRUE]
            /\ UNCHANGED agent
    /\ UNCHANGED <<rest, visualizer, session, stopping, unmounted>>

\* The catch and the finally of startAgent, which returns null; handleStart,
\* given null, closes its tracks, throws, and ends in its own catch.
StartAgentFails(i, message) ==
    /\ error' = message
    /\ channelRef' = 0
    /\ isConnecting' = FALSE
    /\ starting' = Without(starting, i)
    /\ handleStart' = "idle"
    /\ UNCHANGED <<connectionInfo, pingIntervalRef, generated>>

\* The token request of a call of startAgent comes to tokenResult.
TokenResult(tokenResult) ==
    /\ \E i \in DOMAIN starting :
          /\ starting[i].awaits = "token"
          /\ event' = [Quiet("token") EXCEPT !.channel = starting[i].channel,
                                             !.result = tokenResult,
                                             !.outcome = IF TokenFailed(tokenResult)
                                                         THEN "null" ELSE "start"]
          /\ IF TokenFailed(tokenResult)
             THEN StartAgentFails(i, ErrorMessage(tokenResult,
                                                  "Failed to generate Agora token"))
             ELSE /\ starting' = [starting EXCEPT ![i].awaits = "start"]
                  /\ UNCHANGED <<isConnecting, error, connectionInfo, channelRef,
                                 pingIntervalRef, generated, handleStart>>
    /\ UNCHANGED <<rest, visualizer, session, running, stopping, unmounted>>

\* The start request of a call of startAgent comes to startResult: the service
\* runs the agent of the channel when it answers with code "0", and startAgent
\* then starts the ping and returns the connection info to handleStart, which
\* awaits joinChannel.
StartResult(startResult) ==
    /\ \E i \in DOMAIN starting :
          LET channel == starting[i].channel IN
          /\ starting[i].awaits = "start"
          /\ event' = [Quiet("start") EXCEPT !.channel = channel,
                                             !.result = startResult,
                                             !.outcome = IF StartFailed(startResult)
                                                         THEN "null" ELSE "info"]
          /\ IF StartFailed(startResult)
             THEN /\ StartAgentFails(i, ErrorMessage(startResult, "Failed to start agent"))
                  /\ UNCHANGED running
             ELSE /\ running' = running \cup {channel}
                  /\ pingIntervalRef' = StartPing(pingIntervalRef, channel)
                  /\ connectionInfo' = channel
                  /\ isConnecting' = FALSE
                  /\ starting' = Without(starting, i)
                  /\ handleStart' = "join"
                  /\ UNCHANGED <<error, channelRef, generated>>
    /\ UNCHANGED <<rest, visualizer, session, stopping, unmounted>>

\* The joinChannel that handleStart awaits resolves, or throws and handleStart
\* ends in its catch.
JoinResult(threw) ==
    /\ handleStart = "join"
    /\ handleStart' = "idle"
    /\ IF threw
       THEN /\ event' = [Quiet("join") EXCEPT !.threw = TRUE]
            /\ UNCHANGED <<rest, visualizer, session>>
       ELSE Joined
    /\ UNCHANGED <<agent, stopping, unmounted>>

\* toggleMute, by its button, shown while connected; rtcHelper.setMuted
\* resolves or throws.
ToggleMute(threw) ==
    /\ ~unmounted
    /\ isConnected
    /\ IF rtcHelperRef /\ ~threw
       THEN /\ isMuted' = ~isMuted
            /\ micState' = IF ~isMuted THEN "idle" ELSE "listening"
       ELSE UNCHANGED <<isMuted, micState>>
    /\ event' = [Quiet("toggleMute") EXCEPT !.threw = rtcHelperRef /\ threw]
    /\ UNCHANGED <<rest, visualizer, rtcHelperRef, listening, agent, component>>

\* The Stop button, shown while connected, where rtcHelperRef.current is set:
\* handleStop calls leaveChannel, which removes the listener and awaits leave().
HandleStop ==
    /\ ~unmounted
    /\ isConnected /\ rtcHelperRef
    /\ Len(stopping) < MaxStops
    /\ listening' = FALSE
    /\ stopping' = Append(stopping, [awaits |-> "leave", channel |-> 0])
    /\ event' = Quiet("handleStop")
    /\ UNCHANGED <<rest, visualizer, micState, isMuted, rtcHelperRef, agent,
                   handleStart, unmounted>>

\* The leave() of a call of leaveChannel resolves, or throws into the catch of
\* leaveChannel; leaveChannel returns either way, and handleStop calls
\* stopAgent, which stops the ping and, with a channel recorded, awaits the
\* stop request.
LeaveResult(threw) ==
    /\ \E i \in DOMAIN stopping :
          /\ stopping[i].awaits = "leave"
          /\ pingIntervalRef' = StopPing(pingIntervalRef)
          /\ IF channelRef # 0
             THEN /\ stopping' = [stopping EXCEPT ![i] = [awaits |-> "stop",
                                                          channel |-> channelRef]]
                  /\ UNCHANGED <<connectionInfo, error>>
             ELSE /\ stopping' = Without(stopping, i)
                  /\ connectionInfo' = 0
                  /\ error' = ""
    /\ IF threw
       THEN /\ event' = [Quiet("leave") EXCEPT !.threw = TRUE]
            /\ UNCHANGED <<rest, visualizer, session>>
       ELSE Left
    /\ UNCHANGED <<isConnecting, channelRef, generated, starting, running,
                   handleStart, unmounted>>

\* The stop request of a call of stopAgent comes to result: the service stops
\* the agent of the channel when it answers with code "0"; stopAgent clears the
\* recorded channel, the connection info and the error.
StopResult(result) ==
    /\ \E i \in DOMAIN stopping :
          /\ stopping[i].awaits = "stop"
          /\ running' = IF ~result.threw /\ result.code = "0"
                        THEN running \ {stopping[i].channel} ELSE running
          /\ event' = [Quiet("stop") EXCEPT !.channel = stopping[i].channel,
                                            !.result = result]
          /\ stopping' = Without(stopping, i)
    /\ channelRef' = 0
    /\ connectionInfo' = 0
    /\ error' = ""
    /\ UNCHANGED <<rest, visualizer, session, isConnecting, pingIntervalRef, generated,
                   starting, handleStart, unmounted>>

\* The component is unmounted: the cleanup of useTenAgent stops the ping and,
\* with a channel recorded, sends the stop request, which comes to result.
Unmount(result) ==
    /\ ~unmounted
    /\ unmounted' = TRUE
    /\ pingIntervalRef' = StopPing(pingIntervalRef)
    /\ running' = IF channelRef # 0 /\ ~result.threw /\ result.code = "0"
                  THEN running \ {channelRef} ELSE running
    /\ event' = [Quiet("unmount") EXCEPT !.channel = channelRef, !.result = result]
    /\ UNCHANGED <<rest, visualizer, session, isConnecting, error, connectionInfo,
                   channelRef, generated, starting, handleStart, stopping>>

\* The callback of the ping's interval: apiPing(channel), whatever it comes to.
Ping ==
    /\ pingIntervalRef # 0
    /\ event' = [Quiet("ping") EXCEPT !.channel = pingIntervalRef]
    /\ UNCHANGED <<rest, visualizer, client>>

\* A stream message to the listener of the client.
StreamMessage(data) == listening /\ HandleStreamMessage(data)

NextClient ==
    \/ HandleStart
    \/ \E ok \in BOOLEAN : TracksCreated(ok)
    \/ \E tokenResult \in Results : TokenResult(tokenResult)
    \/ \E startResult \in Results : StartResult(startResult)
    \/ \E threw \in BOOLEAN : JoinResult(threw)
    \/ \E threw \in BOOLEAN : ToggleMute(threw)
    \/ HandleStop
    \/ \E threw \in BOOLEAN : LeaveResult(threw)
    \/ \E result \in Results : StopResult(result)
    \/ \E result \in Results : Unmount(result)
    \/ Ping

SpecClient == Init /\ [][NextClient]_vars

(***************************************************************************)
(* A session whose requests all succeed but, or not, the leave() of the    *)
(* transport, with the stream messages of two final messages.              *)
(***************************************************************************)
Succeeded == [threw |-> FALSE, code |-> "0", data |-> TRUE]

NextSession ==
    \/ HandleStart
    \/ TracksCreated(TRUE)
    \/ TokenResult(Succeeded)
    \/ StartResult(Succeeded)
    \/ JoinResult(FALSE)
    \/ HandleStop
    \/ \E threw \in BOOLEAN : LeaveResult(threw)
    \/ StopResult(Succeeded)
    \/ \E data \in OrderDatagrams : StreamMessage(data)
    \/ EvictionTimer
    \/ Tick

SpecSession == Init /\ [][NextSession]_vars


\* C36 (as claimed): when leaveChannel has returned, its leave() resolved or
\* thrown, the pending map, the finalized list and the in-progress slot are
\* empty, isConnected is false and micState is "idle".
C36_LeaveClearsEverything ==
    event.kind = "leave" =>
        /\ messageCache = EmptyCache
        /\ messageList = <<>>
        /\ currentInProgressMessage = <<>>
        /\ ~isConnected
        /\ micState = "idle"


\* C37 (as claimed): micState is "listening" exactly when the client is
\* connected and not muted.
C37_ListeningIffConnectedUnmuted ==
    (isConnected /\ ~isMuted) <=> (micState = "listening")

\* The calls in calls that await what.
Awaiting(calls, what) ==
    {calls[i].channel : i \in {j \in DOMAIN calls : calls[j].awaits = what}}

\* The response of a request resolved with code "0".
CodeZero(result) == ~result.threw /\ result.code = "0"

\* e tells of a request of startAgent that threw or did not succeed.
RequestFailed(e) ==
    \/ e.kind = "token" /\ ~(CodeZero(e.result) /\ e.result.data)
    \/ e.kind = "start" /\ ~CodeZero(e.result)

\* C38: a call of startAgent awaits the token first; it comes to await the
\* start request only by a token response of code "0" with data; the service
\* is asked to run the agent, and the ping is started, for the channel of the
\* call, only by a start response of code "0" to a call that awaited it; and a
\* request that throws or does not succeed makes startAgent return null, with
\* the error recorded, the recorded channel cleared, isConnecting false, the
\* call over and the ping interval as it was.
C38_StartAgentInOrder ==
    [][/\ event'.kind = "startAgent" =>
             /\ Awaiting(starting', "token") = Awaiting(starting, "token") \cup {event'.channel}
             /\ event'.channel \notin Awaiting(starting, "token")
             /\ isConnecting' /\ error' = "" /\ channelRef' = event'.channel
       /\ Awaiting(starting', "token") # Awaiting(starting, "token") =>
             event'.kind \in {"startAgent", "token"}
       /\ Awaiting(starting', "start") \ Awaiting(starting, "start") # {} =>
             /\ event'.kind = "token"
             /\ CodeZero(event'.result) /\ event'.result.data
             /\ event'.channel \in Awaiting(starting, "token")
             /\ Awaiting(starting', "start") \ Awaiting(starting, "start") = {event'.channel}
       /\ running' \ running # {} \/ (pingIntervalRef' # pingIntervalRef /\ pingIntervalRef' # 0) =>
             /\ event'.kind = "start"
             /\ CodeZero(event'.result)
             /\ event'.channel \in Awaiting(starting, "start")
             /\ running' = running \cup {event'.channel}
             /\ pingIntervalRef' = event'.channel
             /\ event'.outcome = "info" /\ connectionInfo' = event'.channel
             /\ ~isConnecting'
       /\ RequestFailed(event') =>
             /\ event'.outcome = "null"
             /\ error' # ""
             /\ channelRef' = 0
             /\ ~isConnecting'
             /\ pingIntervalRef' = pingIntervalRef
             /\ running' = running
             /\ event'.channel \notin Awaiting(starting', "token") \cup Awaiting(starting', "start")]_vars

\* The start request of a call whose token request had succeeded has just been
\* answered with another code than "0".
C38_Witness ==
    /\ event.kind = "start" /\ event.outcome = "null"
    /\ event.result.code = "10001"
    /\ error = "Failed to start agent"
    /\ channelRef = 0 /\ ~isConnecting
    /\ pingIntervalRef = 0 /\ running = {}
    /\ starting = <<>>

\* C39 (as claimed): while the interval of the ping is set a channel is
\* recorded.
C39_PingHasChannel == pingIntervalRef # 0 => channelRef # 0

\* C40 (as claimed): the interval of the ping is set, and an agent runs, only
\* while the client is connected or handleStart is under way.
C40_NoSessionLeftRunning ==
    (pingIntervalRef # 0 \/ running # {}) =>
        (isConnected \/ handleStart # "idle" \/ stopping # <<>>)

==============================================================================
